---- MODULE Spec2Model ----
(***************************************************************************)
(* SmartTemplateRegistry (src/src/smart_templates/core.py): the            *)
(* registration table, the pattern functions, the lru_cache in front of    *)
(* the table lookup, and the convention-based template name; and           *)
(* SmartTemplates: render_safe, safe_macro and render_obj over a jinja2    *)
(* Environment.                                                            *)
(*                                                                         *)
(* A Python str is a sequence of one-character strings, so that joining,   *)
(* lower-casing and the CamelCase conversion are computed and two keys     *)
(* are equal exactly when their characters are.  Other Python values are   *)
(* records tagged by their type in field t.                                *)
(***************************************************************************)
EXTENDS Integers, Sequences, FiniteSets, TLC

VARIABLES
    instances,      \* the SmartTemplateRegistry objects that were constructed
    registrations,  \* self._registrations of each: key str -> RegistrationConfig
    patterns,       \* self._patterns of each: the pattern functions, in order
    cache,          \* lru_cache entries of _find_template_cached, oldest first
    hits,           \* lru_cache statistics: cache_info().hits
    misses,         \* lru_cache statistics: cache_info().misses
    ret,            \* the last call: its arguments and what it returned or raised
    hist,           \* the calls before it, most recent last
    templates,      \* the SmartTemplates object: debug_mode and its Environment
    context,        \* the mapping the caller of a render call owns
    threads         \* the call each thread is in and the local values it holds

vars == <<instances, registrations, patterns, cache, hits, misses, ret, hist,
          templates, context, threads>>

----------------------------------------------------------------------------
(* Python values *)

None == [t |-> "None"]
StrVal(s) == [t |-> "str", v |-> s]
IntVal(i) == [t |-> "int", v |-> i]
Type(name) == [t |-> "type", name |-> name]
Raised(exc) == [t |-> "raise", exc |-> exc]

\* A member of an Enum class: base is "str" for class C(str, Enum), the form of
\* EnrollmentStatus and CourseStatus, and "Enum" for class C(Enum).
EnumMember(cls, member, value, base) ==
    [t |-> "enum", cls |-> cls, member |-> member, value |-> value, base |-> base]

\* bool(v), as `if v:` and filter(None, ...) take it.
Truthy(v) ==
    CASE v.t = "None" -> FALSE
      [] v.t = "str"  -> Len(v.v) > 0
      [] v.t = "int"  -> v.v # 0
      [] v.t = "enum" -> IF v.base = "str" THEN Len(v.value.v) > 0 ELSE TRUE
      [] OTHER        -> TRUE

\* str(v) of a str or of an Enum member: Enum.__str__ gives "Class.MEMBER",
\* also for a class that mixes in str.
PyStr(v) ==
    CASE v.t = "str"  -> v.v
      [] v.t = "enum" -> v.cls \o <<".">> \o v.member

\* isinstance(variation, Enum)
IsEnum(v) == v.t = "enum"

UpperToLower ==
    [A |-> "a", B |-> "b", C |-> "c", D |-> "d", E |-> "e", F |-> "f", G |-> "g",
     H |-> "h", I |-> "i", J |-> "j", K |-> "k", L |-> "l", M |-> "m", N |-> "n",
     O |-> "o", P |-> "p", Q |-> "q", R |-> "r", S |-> "s", T |-> "t", U |-> "u",
     V |-> "v", W |-> "w", X |-> "x", Y |-> "y", Z |-> "z"]

\* c.isupper() and c.lower() of one character
IsUpper(c) == c \in DOMAIN UpperToLower
LowerChar(c) == IF IsUpper(c) THEN UpperToLower[c] ELSE c

\* s.lower()
Lower(s) == [i \in 1..Len(s) |-> LowerChar(s[i])]

\* sep.join(parts) of a sequence of strs
RECURSIVE Join(_, _)
Join(sep, parts) ==
    IF Len(parts) = 0 THEN <<>>
    ELSE IF Len(parts) = 1 THEN parts[1]
    ELSE parts[1] \o sep \o Join(sep, Tail(parts))

\* ":".join(filter(None, key_parts)): the falsy parts are dropped; join raises
\* TypeError when a part that is left is not a str.
ColonJoin(key_parts) ==
    LET kept == SelectSeq(key_parts, Truthy)
    IN  IF \E i \in 1..Len(kept) : kept[i].t # "str"
        THEN Raised("TypeError")
        ELSE StrVal(Join(<<":">>, [i \in 1..Len(kept) |-> kept[i].v]))

----------------------------------------------------------------------------
(* Names *)

Student == <<"S", "t", "u", "d", "e", "n", "t">>
StudentRecord == <<"S", "t", "u", "d", "e", "n", "t", "R", "e", "c", "o", "r", "d">>
Enrollment == <<"E", "n", "r", "o", "l", "l", "m", "e", "n", "t">>
EnrollmentStatus == Enrollment \o <<"S", "t", "a", "t", "u", "s">>
Priority == <<"P", "r", "i", "o", "r", "i", "t", "y">>
IDCard == <<"I", "D", "C", "a", "r", "d">>
Done == <<"D", "o", "n", "e">>
active == <<"a", "c", "t", "i", "v", "e">>
completed == <<"c", "o", "m", "p", "l", "e", "t", "e", "d">>
html == <<".", "h", "t", "m", "l">>

EnrollmentStatus_ACTIVE ==
    EnumMember(EnrollmentStatus, <<"A", "C", "T", "I", "V", "E">>, StrVal(active), "str")
EnrollmentStatus_COMPLETED ==
    EnumMember(EnrollmentStatus, <<"C", "O", "M", "P", "L", "E", "T", "E", "D">>,
               StrVal(completed), "str")
Priority_HIGH == EnumMember(Priority, <<"H", "I", "G", "H">>, IntVal(1), "Enum")

----------------------------------------------------------------------------
(* SmartTemplateRegistry: keys and names *)

\* _make_key(obj_type, model, variation)
MakeKey(obj_type, model, variation) ==
    Join(<<":">>,
         <<obj_type.name>>
         \o (IF Truthy(model) THEN <<model.name>> ELSE <<>>)
         \o (IF Truthy(variation) THEN <<PyStr(variation)>> ELSE <<>>))

\* The CamelCase to snake_case loop of _convention_based_name_from_strings
RECURSIVE SnakeFrom(_, _)
SnakeFrom(name, i) ==
    IF i > Len(name) THEN <<>>
    ELSE (IF IsUpper(name[i]) /\ i > 1 THEN <<"_">> ELSE <<>>)
         \o <<LowerChar(name[i])>> \o SnakeFrom(name, i + 1)

SnakeCase(name) == SnakeFrom(name, 1)

\* ConventionBasedNameFromStrings with the model name only lowercased
ConventionBasedNameModelLowered(obj_type_name, model_name, variation_str) ==
    StrVal(Join(<<"/">>,
                <<SnakeCase(obj_type_name.v)>>
                \o (IF Truthy(model_name) THEN <<Lower(model_name.v)>> ELSE <<>>)
                \o (IF Truthy(variation_str) THEN <<Lower(variation_str.v)>> ELSE <<>>))
           \o html)

\* _convention_based_name_from_strings(obj_type_name, model_name, variation_str):
\* the arguments are a str, and a str or None each; variation_str.lower() raises
\* AttributeError on a truthy value that is not a str.
ConventionBasedNameFromStrings(obj_type_name, model_name, variation_str) ==
    IF Truthy(variation_str) /\ variation_str.t # "str"
    THEN Raised("AttributeError")
    ELSE StrVal(Join(<<"/">>,
                  <<SnakeCase(obj_type_name.v)>>
                  \o (IF Truthy(model_name) THEN <<SnakeCase(model_name.v)>> ELSE <<>>)
                  \o (IF Truthy(variation_str) THEN <<Lower(variation_str.v)>> ELSE <<>>))
             \o html)

\* _convention_based_name(obj_type, model, variation)
ConventionBasedName(obj_type, model, variation) ==
    ConventionBasedNameFromStrings(
        StrVal(obj_type.name),
        IF Truthy(model) THEN StrVal(model.name) ELSE None,
        IF Truthy(variation) THEN StrVal(PyStr(variation)) ELSE None)

----------------------------------------------------------------------------
(* SmartTemplateRegistry: the table lookup and its cache *)

\* RegistrationConfig
RegistrationConfig(name, registration_type, target, model_class, variation) ==
    [name |-> name, registration_type |-> registration_type, target |-> target,
     model_class |-> model_class, variation |-> variation]

\* The dicts find_template returns
TemplateMapping(path) == [t |-> "dict", type |-> "template", path |-> path]
MacroMapping(template, macro) ==
    [t |-> "dict", type |-> "macro", template |-> template, macro |-> macro]

\* KeyParts with the variation-only key tried before the model-only key
KeyPartsVariationFirst(obj_type_name, model_name, variation_str) ==
    << <<obj_type_name, model_name, variation_str>>,
       <<obj_type_name, None, variation_str>>,
       <<obj_type_name, model_name, None>>,
       <<obj_type_name, None, None>> >>

\* The four key_parts of _find_template_cached, in the order it tries them
KeyParts(obj_type_name, model_name, variation_str) ==
    << <<obj_type_name, model_name, variation_str>>,
       <<obj_type_name, model_name, None>>,
       <<obj_type_name, None, variation_str>>,
       <<obj_type_name, None, None>> >>

\* The loop of _find_template_cached from the i-th key_parts on: the mapping of
\* the first key that is registered as a macro or a template, None when there is
\* none, TypeError when the join raises.
RECURSIVE LookupFrom(_, _, _)
LookupFrom(regs, key_parts, i) ==
    IF i > Len(key_parts) THEN None
    ELSE LET key == ColonJoin(key_parts[i])
         IN  IF key.t = "raise" THEN key
             ELSE IF key.v \in DOMAIN regs
             THEN LET config == regs[key.v]
                  IN  IF config.registration_type = "macro"
                      THEN MacroMapping(config.target, config.name)
                      ELSE IF config.registration_type = "template"
                      THEN TemplateMapping(config.target)
                      ELSE LookupFrom(regs, key_parts, i + 1)
             ELSE LookupFrom(regs, key_parts, i + 1)

\* The body of _find_template_cached, without the decorator
FindTemplateUncached(regs, obj_type_name, model_name, variation_str) ==
    LookupFrom(regs, KeyParts(obj_type_name, model_name, variation_str), 1)

\* @lru_cache(maxsize=256)
maxsize == 256

\* LruCacheCall where a hit leaves the entry at its place: the entry stored
\* first is the one that goes
LruCacheCallFifo(c, h, m, self, obj_type_name, model_name, variation_str) ==
    LET key == <<self, obj_type_name, model_name, variation_str>>
        at == {i \in 1..Len(c) : c[i].key = key}
        result == FindTemplateUncached(registrations[self], obj_type_name, model_name,
                                       variation_str)
        entry == [key |-> key, result |-> result]
    IN  IF at # {}
        THEN [result |-> c[CHOOSE j \in at : TRUE].result, cache |-> c,
              hits |-> h + 1, misses |-> m]
        ELSE [result |-> result,
              cache |-> IF result.t = "raise" THEN c
                        ELSE IF Len(c) >= maxsize THEN Tail(c) \o <<entry>>
                        ELSE c \o <<entry>>,
              hits |-> h, misses |-> m + 1]

\* One call of the decorated _find_template_cached on the cache (c, h, m): a hit
\* returns the stored result and makes the entry the most recent; a miss counts,
\* calls the function and stores what it returns, in place of the oldest entry
\* when the cache is full; nothing is stored when the function raises.
LruCacheCall(c, h, m, self, obj_type_name, model_name, variation_str) ==
    LET key == <<self, obj_type_name, model_name, variation_str>>
        at == {i \in 1..Len(c) : c[i].key = key}
    IN  IF at # {}
        THEN LET i == CHOOSE j \in at : TRUE
             IN  [result |-> c[i].result,
                  cache |-> SelectSeq(c, LAMBDA e : e.key # key) \o <<c[i]>>,
                  hits |-> h + 1, misses |-> m]
        ELSE LET result == FindTemplateUncached(registrations[self], obj_type_name,
                                                model_name, variation_str)
                 entry == [key |-> key, result |-> result]
             IN  [result |-> result,
                  cache |-> IF result.t = "raise" THEN c
                            ELSE IF Len(c) >= maxsize THEN Tail(c) \o <<entry>>
                            ELSE c \o <<entry>>,
                  hits |-> h, misses |-> m + 1]

\* cache_info()._asdict()
CacheInfo(c, h, m) ==
    [hits |-> h, misses |-> m, maxsize |-> maxsize, currsize |-> Len(c)]

----------------------------------------------------------------------------
(* Pattern functions *)

PatternPath == <<"p">> \o html
OtherPatternPath == <<"q">> \o html
ReattemptPath == <<"s", "u", "p", "p", "o", "r", "t", "/", "r", "e", "a", "t", "t", "e", "m", "p", "t">> \o html
EnrollmentStatus_REATTEMPT ==
    EnumMember(EnrollmentStatus, <<"R", "E", "A", "T", "T", "E", "M", "P", "T">>, StrVal(<<"r", "e", "a", "t", "t", "e", "m", "p", "t">>), "str")

\* The pattern functions that get registered, by name: one that matches every
\* object, a second one with another template, one that matches nothing and
\* one that raises; and status_pattern, which matches an object whose status
\* is REATTEMPT at the time of the call.
PatternCall(pattern_func, obj, model, variation) ==
    CASE pattern_func = "always_override_pattern" -> TemplateMapping(PatternPath)
      [] pattern_func = "status_pattern" ->
            IF "status" \in DOMAIN obj /\ obj.status = EnrollmentStatus_REATTEMPT
            THEN TemplateMapping(ReattemptPath)
            ELSE None
      [] pattern_func = "other_pattern"   -> TemplateMapping(OtherPatternPath)
      [] pattern_func = "no_match_pattern" -> None
      [] pattern_func = "failing_pattern" -> Raised("ValueError")

\* PatternsFrom without the try: the loop ends at the first pattern function
\* that raises
RECURSIVE PatternsFromStopAtRaise(_, _, _, _, _)
PatternsFromStopAtRaise(fs, i, obj, model, variation) ==
    IF i > Len(fs) THEN None
    ELSE LET result == PatternCall(fs[i], obj, model, variation)
         IN  IF result.t = "raise" THEN None
             ELSE IF Truthy(result) THEN result
             ELSE PatternsFromStopAtRaise(fs, i + 1, obj, model, variation)

\* The loop of find_template over self._patterns from the i-th on: the first
\* truthy result; an exception is logged and the loop goes on.
RECURSIVE PatternsFrom(_, _, _, _, _)
PatternsFrom(fs, i, obj, model, variation) ==
    IF i > Len(fs) THEN None
    ELSE LET result == PatternCall(fs[i], obj, model, variation)
         IN  IF result.t # "raise" /\ Truthy(result) THEN result
             ELSE PatternsFrom(fs, i + 1, obj, model, variation)

----------------------------------------------------------------------------
(* find_template *)

\* An object: what find_template reads of it is its type.
Object(cls) == [t |-> "object", cls |-> cls]

ModelName(model) == IF Truthy(model) THEN StrVal(model.name) ELSE None

VariationStr(variation) ==
    IF IsEnum(variation) THEN variation.value
    ELSE IF Truthy(variation) THEN StrVal(PyStr(variation))
    ELSE None

\* An object with a status attribute
ObjectWith(cls, status) == [t |-> "object", cls |-> cls, status |-> status]

\* FindTemplateOn with the decorator on the whole lookup: what the pattern
\* functions or the convention gave is stored with the key
FindTemplateOnCachingOutcome(c, h, m, self, obj, model, variation) ==
    LET obj_type_name == StrVal(obj.cls)
        model_name == ModelName(model)
        variation_str == VariationStr(variation)
        key == <<self, obj_type_name, model_name, variation_str>>
        at == {i \in 1..Len(c) : c[i].key = key}
        looked == FindTemplateUncached(registrations[self], obj_type_name, model_name,
                                       variation_str)
        matched == PatternsFrom(patterns[self], 1, obj, model, variation)
        path == ConventionBasedNameFromStrings(obj_type_name, model_name, variation_str)
        result == IF looked.t = "raise" \/ Truthy(looked) THEN looked
                  ELSE IF Truthy(matched) THEN matched
                  ELSE IF path.t = "raise" THEN path
                  ELSE TemplateMapping(path.v)
    IN  IF at # {}
        THEN [result |-> c[CHOOSE j \in at : TRUE].result,
              cache |-> SelectSeq(c, LAMBDA e : e.key # key)
                        \o <<c[CHOOSE j \in at : TRUE]>>,
              hits |-> h + 1, misses |-> m]
        ELSE [result |-> result,
              cache |-> IF result.t = "raise" THEN c
                        ELSE c \o <<[key |-> key, result |-> result]>>,
              hits |-> h, misses |-> m + 1]

\* find_template(obj, model, variation) on the cache (c, h, m): what it returns
\* or raises, and the cache after it.
FindTemplateOn(c, h, m, self, obj, model, variation) ==
    LET obj_type_name == StrVal(obj.cls)
        model_name == ModelName(model)
        variation_str == VariationStr(variation)
        cached == LruCacheCall(c, h, m, self, obj_type_name, model_name, variation_str)
        matched == PatternsFrom(patterns[self], 1, obj, model, variation)
        path == ConventionBasedNameFromStrings(obj_type_name, model_name, variation_str)
    IN  [cached EXCEPT !.result =
            IF cached.result.t = "raise" \/ Truthy(cached.result) THEN cached.result
            ELSE IF Truthy(matched) THEN matched
            ELSE IF path.t = "raise" THEN path
            ELSE TemplateMapping(path.v)]

FindTemplateOutcome(self, obj, model, variation) ==
    FindTemplateOn(cache, hits, misses, self, obj, model, variation)

----------------------------------------------------------------------------
(* The calls *)

Call(op, self, obj, model, variation, config, result) ==
    [op |-> op, self |-> self, obj |-> obj, model |-> model,
     variation |-> variation, config |-> config, result |-> result]

\* CacheClear that leaves the entries in the cache
CacheClearKeepsEntries ==
    /\ cache' = cache
    /\ hits' = 0
    /\ misses' = 0

\* _find_template_cached.cache_clear(): the entries and the statistics go
CacheClear ==
    /\ cache' = <<>>
    /\ hits' = 0
    /\ misses' = 0

\* An empty self._registrations
EmptyTable == [k \in {} |-> None]

\* register(obj_type, config=config), called as op
RegisterAs(op, self, obj_type, config) ==
    LET key == MakeKey(obj_type, config.model_class, config.variation)
    IN  /\ registrations' =
               [registrations EXCEPT ![self] =
                   [k \in DOMAIN @ \cup {key} |-> IF k = key THEN config ELSE @[k]]]
        /\ CacheClear
        /\ ret' = Call(op, self, obj_type, config.model_class,
                       config.variation, config, None)
        /\ UNCHANGED <<threads, templates, context, instances, patterns>>

Register(self, obj_type, config) == RegisterAs("register", self, obj_type, config)

\* The config register_simple builds from its arguments (template_name and
\* macro_name are a str or None each), ValueError when both are missing.
SimpleConfig(obj_type, template_name, macro_name, model, variation) ==
    IF ~Truthy(template_name) /\ ~Truthy(macro_name)
    THEN Raised("ValueError")
    ELSE IF Truthy(template_name) /\ Truthy(macro_name)
    THEN RegistrationConfig(macro_name.v, "macro", template_name.v, model, variation)
    ELSE IF Truthy(macro_name)
    THEN RegistrationConfig(macro_name.v, "macro",
                            ConventionBasedName(obj_type, model, variation).v,
                            model, variation)
    ELSE RegistrationConfig(template_name.v, "template", template_name.v,
                            model, variation)

\* register_simple(obj_type, template_name=, macro_name=, model=, variation=)
RegisterSimple(self, obj_type, template_name, macro_name, model, variation) ==
    LET config == SimpleConfig(obj_type, template_name, macro_name, model, variation)
    IN  IF "registration_type" \in DOMAIN config
        THEN RegisterAs("register_simple", self, obj_type, config)
        ELSE /\ ret' = Call("register_simple", self, obj_type, model, variation,
                            None, config)
             /\ UNCHANGED <<threads, templates, context, instances, registrations, patterns, cache, hits, misses>>

\* unregister(obj_type, model=, variation=): the cache is cleared only when a
\* registration was removed
Unregister(self, obj_type, model, variation) ==
    LET key == MakeKey(obj_type, model, variation)
        removed == key \in DOMAIN registrations[self]
    IN  /\ registrations' =
               [registrations EXCEPT ![self] = [k \in DOMAIN @ \ {key} |-> @[k]]]
        /\ IF removed THEN CacheClear ELSE UNCHANGED <<cache, hits, misses>>
        /\ ret' = Call("unregister", self, obj_type, model, variation, None,
                       [t |-> "bool", v |-> removed])
        /\ UNCHANGED <<threads, templates, context, instances, patterns>>

\* Clear that leaves the pattern functions
ClearKeepsPatterns(self) ==
    /\ registrations' = [registrations EXCEPT ![self] = EmptyTable]
    /\ CacheClear
    /\ ret' = Call("clear", self, None, None, None, None, None)
    /\ UNCHANGED <<threads, templates, context, instances, patterns>>

\* clear()
Clear(self) ==
    /\ registrations' = [registrations EXCEPT ![self] = EmptyTable]
    /\ patterns' = [patterns EXCEPT ![self] = <<>>]
    /\ CacheClear
    /\ ret' = Call("clear", self, None, None, None, None, None)
    /\ UNCHANGED <<threads, templates, context, instances>>

\* register_pattern(pattern_func)
RegisterPattern(self, pattern_func) ==
    /\ patterns' = [patterns EXCEPT ![self] = Append(@, pattern_func)]
    /\ ret' = Call("register_pattern", self, None, None, None, pattern_func, None)
    /\ UNCHANGED <<threads, templates, context, instances, registrations, cache, hits, misses>>

\* find_template(obj, model, variation)
FindTemplate(self, obj, model, variation) ==
    LET out == FindTemplateOutcome(self, obj, model, variation)
    IN  /\ cache' = out.cache
        /\ hits' = out.hits
        /\ misses' = out.misses
        /\ ret' = Call("find_template", self, obj, model, variation, None, out.result)
        /\ UNCHANGED <<threads, templates, context, instances, registrations, patterns>>

\* The lookup_hierarchy of debug_lookup: the keys _make_key builds for the four
\* key_parts, with whether each is in the table
LookupHierarchy(self, obj, model, variation) ==
    LET obj_type == Type(obj.cls)
        key_parts == << <<obj_type, model, variation>>, <<obj_type, model, None>>,
                        <<obj_type, None, variation>>, <<obj_type, None, None>> >>
    IN  [i \in 1..4 |->
            LET key == MakeKey(key_parts[i][1], key_parts[i][2], key_parts[i][3])
                found == key \in DOMAIN registrations[self]
            IN  [key |-> key, found |-> found,
                 registration |-> IF found THEN registrations[self][key] ELSE None]]

\* debug_lookup(obj, model, variation): the hierarchy is read first, then
\* find_template runs, then the statistics are read; what find_template raises
\* comes out of debug_lookup.
DebugLookup(self, obj, model, variation) ==
    LET out == FindTemplateOutcome(self, obj, model, variation)
        info == [t |-> "dict",
                 obj_type |-> StrVal(obj.cls),
                 model |-> ModelName(model),
                 variation |-> IF Truthy(variation) THEN StrVal(PyStr(variation))
                               ELSE None,
                 lookup_hierarchy |-> LookupHierarchy(self, obj, model, variation),
                 pattern_functions_count |-> Len(patterns[self]),
                 final_mapping |-> out.result,
                 cache_info |-> CacheInfo(out.cache, out.hits, out.misses)]
    IN  /\ cache' = out.cache
        /\ hits' = out.hits
        /\ misses' = out.misses
        /\ ret' = Call("debug_lookup", self, obj, model, variation, None,
                       IF out.result.t = "raise" THEN out.result ELSE info)
        /\ UNCHANGED <<threads, templates, context, instances, registrations, patterns>>

----------------------------------------------------------------------------
(* The registries that are run *)

\* After __init__ of n registries: no registration, no pattern; the cache of
\* the class is empty.
InitWith(n) ==
    /\ threads = <<>>
    /\ templates = None
    /\ context = None
    /\ instances = 1..n
    /\ registrations = [self \in 1..n |-> EmptyTable]
    /\ patterns = [self \in 1..n |-> <<>>]
    /\ cache = <<>>
    /\ hits = 0
    /\ misses = 0
    /\ ret = Call("__init__", n, None, None, None, None, None)
    /\ hist = <<>>

\* The last k of the calls made
Recent(calls, k) ==
    IF Len(calls) <= k THEN calls ELSE SubSeq(calls, Len(calls) - k + 1, Len(calls))

Remember(k) == hist' = Recent(Append(hist, ret), k)

\* What the calls are made with
TemplateA == <<"a">> \o html
TemplateB == <<"b">> \o html
render_student == <<"r", "e", "n", "d", "e", "r", "_", "s", "t", "u", "d", "e", "n", "t">>

ModelClasses == {None, Type(Enrollment)}
Variations == {None, StrVal(active), EnrollmentStatus_ACTIVE}

\* The targets given to register_simple: <<template_name, macro_name>>
Targets == { <<StrVal(TemplateA), None>>, <<StrVal(TemplateB), StrVal(render_student)>> }

PatternFunctions ==
    {"always_override_pattern", "other_pattern", "no_match_pattern", "failing_pattern"}

MaxRegistrations == 4
MaxLookups == 2
MaxPatterns == 2
MaxConventionLookups == 1
MaxSequenceLookups == 3
MaxTableKeys == 2
MaxTableLookups == 1
MaxRenderLookups == 1
MaxResolvers == 2
MaxResolverLookups == 3
MaxLruLookups == 4
MaxOwnerLookups == 3
MaxKeyEntries == 2
MaxKeyLookups == 2
MaxDebugLookups == 2
MaxThreadReads == 2
MaxThreadWrites == 2

\* At most n keys in the table of self after the step
TableWithin(self, n) == Cardinality(DOMAIN registrations'[self]) <= n

\* At most n lookups counted by the cache statistics before the step
LookupsWithin(n) == hits + misses < n

----------------------------------------------------------------------------
(* Reading the table as the registrations that were made *)

\* The mapping find_template gives for a registration
MappingOf(config) ==
    IF config.registration_type = "macro"
    THEN MacroMapping(config.target, config.name)
    ELSE TemplateMapping(config.target)

\* The keys of the table of self that hold a registration of type name T made
\* with a secondary type named model_name and a variation whose normalized
\* string is variation_str (the value of an enum member, the string itself)
Entries(self, T, model_name, variation_str) ==
    {k \in DOMAIN registrations[self] :
        LET config == registrations[self][k]
        IN  /\ k = MakeKey(Type(T), config.model_class, config.variation)
            /\ ModelName(config.model_class) = model_name
            /\ VariationStr(config.variation) = variation_str}

\* The <<secondary type, variation>> of the four candidate keys of a lookup,
\* most specific first
Candidates(model, variation) ==
    << <<ModelName(model), VariationStr(variation)>>,
       <<ModelName(model), None>>,
       <<None, VariationStr(variation)>>,
       <<None, None>> >>

\* The candidates of the lookup that are registered, by position
RegisteredCandidates(self, obj, model, variation) ==
    {i \in 1..4 : Entries(self, obj.cls, Candidates(model, variation)[i][1],
                          Candidates(model, variation)[i][2]) # {}}

\* The targets registered under the i-th candidate of the lookup
TargetsOfCandidate(self, obj, model, variation, i) ==
    {MappingOf(registrations[self][k]) :
        k \in Entries(self, obj.cls, Candidates(model, variation)[i][1],
                      Candidates(model, variation)[i][2])}

Min(S) == CHOOSE i \in S : \A j \in S : i <= j

IsFind == ret.op = "find_template"

----------------------------------------------------------------------------
(* Registrations and lookups of one type on one registry *)

InitPriority == InitWith(1)

RegisterSimplePriority ==
    \E target \in Targets, model \in ModelClasses, variation \in Variations :
        /\ RegisterSimple(1, Type(Student), target[1], target[2], model, variation)
        /\ TableWithin(1, MaxRegistrations)
        /\ Remember(0)

FindTemplatePriority ==
    \E model \in ModelClasses, variation \in Variations \cup {StrVal(EnrollmentStatus)} :
        /\ LookupsWithin(MaxLookups)
        /\ FindTemplate(1, Object(Student), model, variation)
        /\ Remember(0)

NextPriority == RegisterSimplePriority \/ FindTemplatePriority

SpecPriority == InitPriority /\ [][NextPriority]_vars

\* C1: find_template returns the target of the first registered key in the
\* order (T,M,V), (T,M,absent), (T,absent,V), (T,absent,absent): with all four
\* registered it is the (T,M,V) target, with only the bare key registered the
\* bare target.
C1_FirstRegisteredKey ==
    IsFind =>
        LET found == RegisteredCandidates(ret.self, ret.obj, ret.model, ret.variation)
        IN  found # {} =>
                ret.result \in TargetsOfCandidate(ret.self, ret.obj, ret.model,
                                                  ret.variation, Min(found))

\* A lookup with both a secondary type and a variation, for which exactly the
\* second and the third candidate key are registered
C2_Premise ==
    /\ IsFind
    /\ ret.model # None
    /\ ret.variation # None
    /\ RegisteredCandidates(ret.self, ret.obj, ret.model, ret.variation) = {2, 3}

\* C2: with (T, Secondary, absent) and (T, absent, Variation) registered and
\* (T, Secondary, Variation) not, a lookup that gives both Secondary and
\* Variation returns the (T, Secondary, absent) target.
C2_SecondaryOverVariation ==
    C2_Premise =>
        ret.result \in TargetsOfCandidate(ret.self, ret.obj, ret.model, ret.variation, 2)

\* The premise of C2 with two different targets, so that the answer tells them apart
C2_Witness ==
    /\ C2_Premise
    /\ TargetsOfCandidate(ret.self, ret.obj, ret.model, ret.variation, 2)
       # TargetsOfCandidate(ret.self, ret.obj, ret.model, ret.variation, 3)
    /\ ret.variation = StrVal(active)

\* The key under which register(T, model=, variation=) stored the registration
\* that the table of self still holds for exactly these arguments, as a set:
\* empty when there is none
Stored(self, T, model, variation) ==
    {k \in {MakeKey(Type(T), model, variation)} \cap DOMAIN registrations[self] :
        /\ registrations[self][k].model_class = model
        /\ registrations[self][k].variation = variation}

\* The registration made with EnrollmentStatus.ACTIVE is what a lookup with the
\* plain string "active" returns
C4_ByValue ==
    \A k \in Stored(ret.self, Student, ret.model, EnrollmentStatus_ACTIVE) :
        (/\ IsFind
         /\ ret.variation = StrVal(active)
         /\ Entries(ret.self, ret.obj.cls, ModelName(ret.model), StrVal(active)) = {k})
        => ret.result = MappingOf(registrations[ret.self][k])

\* The registration made with EnrollmentStatus.ACTIVE is not what a lookup with
\* the string "EnrollmentStatus" returns
C4_NotByClassName ==
    \A k \in Stored(ret.self, Student, ret.model, EnrollmentStatus_ACTIVE) :
        (/\ IsFind
         /\ ret.variation = StrVal(EnrollmentStatus)
         /\ RegisteredCandidates(ret.self, ret.obj, ret.model, ret.variation) = {})
        => ret.result # MappingOf(registrations[ret.self][k])

\* C4: a registration made with an enum member whose value is "active" is hit
\* by a lookup with the plain string "active", and is not hit by a lookup with
\* the name of the enum class.
C4_EnumNormalization == C4_ByValue /\ C4_NotByClassName

\* C5: after register with (T, M, V, target), find_template on an instance of T
\* with the same M and the same V returns that target, while the table holds
\* the registration and none other made for the same secondary type and the
\* same normalized variation.
C5_RoundTrip ==
    IsFind =>
        \A k \in Stored(ret.self, ret.obj.cls, ret.model, ret.variation) :
            Entries(ret.self, ret.obj.cls, ModelName(ret.model),
                    VariationStr(ret.variation)) = {k}
            => ret.result = MappingOf(registrations[ret.self][k])

\* The round trip for the plain-string and absent variations only
C5_RoundTripOfStrings == ~IsEnum(ret.variation) => C5_RoundTrip

----------------------------------------------------------------------------
(* Registrations, pattern functions and lookups on one registry *)

InitPatterns == InitWith(1)

RegisterSimplePatterns ==
    \E target \in Targets, variation \in Variations :
        /\ RegisterSimple(1, Type(Student), target[1], target[2], None, variation)
        /\ Remember(0)

RegisterPatternPatterns ==
    \E pattern_func \in PatternFunctions :
        /\ Len(patterns[1]) < MaxPatterns
        /\ RegisterPattern(1, pattern_func)
        /\ Remember(0)

ClearPatterns == Clear(1) /\ Remember(0)

FindTemplatePatterns ==
    \E variation \in Variations :
        /\ LookupsWithin(MaxLookups)
        /\ FindTemplate(1, Object(Student), None, variation)
        /\ Remember(0)

NextPatterns ==
    \/ RegisterSimplePatterns
    \/ RegisterPatternPatterns
    \/ ClearPatterns
    \/ FindTemplatePatterns

SpecPatterns == InitPatterns /\ [][NextPatterns]_vars

\* The positions of the pattern functions of self that match the lookup: they
\* return a mapping, neither None nor an exception
Matching(self, obj, model, variation) ==
    {i \in 1..Len(patterns[self]) :
        PatternCall(patterns[self][i], obj, model, variation).t = "dict"}

\* The convention target of a lookup
ConventionTarget(obj, model, variation) ==
    TemplateMapping(ConventionBasedNameFromStrings(
        StrVal(obj.cls), ModelName(model), VariationStr(variation)).v)

\* C3: a registered candidate key beats every pattern function, whenever the
\* pattern was registered; with no candidate registered a matching pattern
\* function gives the target; the convention target is returned only when
\* neither matches.
C3_ExplicitThenPatternThenConvention ==
    IsFind =>
        LET found == RegisteredCandidates(ret.self, ret.obj, ret.model, ret.variation)
            matching == Matching(ret.self, ret.obj, ret.model, ret.variation)
        IN  /\ found # {} =>
                ret.result \in TargetsOfCandidate(ret.self, ret.obj, ret.model,
                                                  ret.variation, Min(found))
            /\ (found = {} /\ matching # {}) =>
                ret.result \in {PatternCall(patterns[ret.self][i], ret.obj, ret.model,
                                            ret.variation) : i \in matching}
            /\ ret.result = ConventionTarget(ret.obj, ret.model, ret.variation)
                => (found = {} /\ matching = {})

\* A lookup for which no candidate key is registered
C6_Premise ==
    /\ IsFind
    /\ RegisteredCandidates(ret.self, ret.obj, ret.model, ret.variation) = {}

\* C6: with no candidate key registered, find_template returns the result of
\* the first pattern function, in registration order, that returns a mapping;
\* one that returns None and one that raises are passed over; with none
\* matching it returns the convention target.
C6_PatternOrder ==
    C6_Premise =>
        LET matching == Matching(ret.self, ret.obj, ret.model, ret.variation)
        IN  ret.result =
                IF matching # {}
                THEN PatternCall(patterns[ret.self][Min(matching)], ret.obj, ret.model,
                                 ret.variation)
                ELSE ConventionTarget(ret.obj, ret.model, ret.variation)

\* A pattern function that raises, then one that matches: the second is reached
C6_Witness ==
    /\ C6_Premise
    /\ patterns[ret.self] = <<"failing_pattern", "other_pattern">>
    /\ ret.result = TemplateMapping(OtherPatternPath)

----------------------------------------------------------------------------
(* Every call on one registry *)

Init == InitWith(1)

RegisterSimpleCall ==
    \E target \in Targets, model \in ModelClasses, variation \in {None, StrVal(active)} :
        /\ RegisterSimple(1, Type(Student), target[1], target[2], model, variation)
        /\ TableWithin(1, MaxRegistrations)
        /\ Remember(0)

UnregisterCall ==
    \E model \in ModelClasses, variation \in {None, StrVal(active)} :
        /\ Unregister(1, Type(Student), model, variation)
        /\ Remember(0)

ClearCall == Clear(1) /\ Remember(0)

RegisterPatternCall ==
    \E pattern_func \in {"always_override_pattern", "failing_pattern"} :
        /\ Len(patterns[1]) < MaxPatterns
        /\ RegisterPattern(1, pattern_func)
        /\ Remember(0)

FindTemplateCall ==
    \E model \in ModelClasses, variation \in Variations \cup {Priority_HIGH} :
        /\ LookupsWithin(MaxLookups)
        /\ FindTemplate(1, Object(Student), model, variation)
        /\ Remember(0)

DebugLookupCall ==
    \E model \in ModelClasses :
        /\ LookupsWithin(MaxLookups)
        /\ DebugLookup(1, Object(Student), model, None)
        /\ Remember(0)

Next ==
    \/ RegisterSimpleCall
    \/ UnregisterCall
    \/ ClearCall
    \/ RegisterPatternCall
    \/ FindTemplateCall
    \/ DebugLookupCall

Spec == Init /\ [][Next]_vars

\* C8: find_template returns a target and never raises, whatever is
\* registered and whatever the lookup is made with.
C8_Total == IsFind => ret.result.t = "dict"

----------------------------------------------------------------------------
(* Sequences of calls about the bare key of one type *)

InitSequences == InitWith(1)

RegisterSimpleSequences ==
    \E target \in Targets :
        /\ RegisterSimple(1, Type(Student), target[1], target[2], None, None)
        /\ Remember(3)

UnregisterSequences == Unregister(1, Type(Student), None, None) /\ Remember(3)

ClearSequences == Clear(1) /\ Remember(3)

RegisterPatternSequences ==
    /\ patterns[1] = <<>>
    /\ RegisterPattern(1, "always_override_pattern")
    /\ Remember(3)

FindTemplateSequences ==
    \E model \in ModelClasses :
        /\ LookupsWithin(MaxSequenceLookups)
        /\ FindTemplate(1, Object(Student), model, None)
        /\ Remember(3)

DebugLookupSequences ==
    \E model \in ModelClasses :
        /\ LookupsWithin(MaxSequenceLookups)
        /\ DebugLookup(1, Object(Student), model, None)
        /\ Remember(3)

NextSequences ==
    \/ RegisterSimpleSequences
    \/ UnregisterSequences
    \/ ClearSequences
    \/ RegisterPatternSequences
    \/ FindTemplateSequences
    \/ DebugLookupSequences

SpecSequences == InitSequences /\ [][NextSequences]_vars

\* What find_template computes from the table and the pattern functions of
\* self when nothing is cached
Uncached(self, obj, model, variation) ==
    FindTemplateOn(<<>>, 0, 0, self, obj, model, variation).result

\* C9: every find_template, also the one inside debug_lookup, returns what the
\* lookup computes without a cache from the table and the pattern functions as
\* they are, and every cache entry holds what the table lookup gives now.
C9_CacheTransparent ==
    /\ IsFind => ret.result = Uncached(ret.self, ret.obj, ret.model, ret.variation)
    /\ (ret.op = "debug_lookup" /\ ret.result.t = "dict") =>
            ret.result.final_mapping =
                Uncached(ret.self, ret.obj, ret.model, ret.variation)
    /\ \A i \in 1..Len(cache) :
            cache[i].result =
                FindTemplateUncached(registrations[cache[i].key[1]], cache[i].key[2],
                                     cache[i].key[3], cache[i].key[4])

\* A lookup fell through to the convention, which cached 'not found'; then the
\* type was registered; the same lookup now returns the registered target.
C9_Witness ==
    /\ Len(hist) = 3
    /\ hist[2].op = "find_template"
    /\ hist[2].result = ConventionTarget(hist[2].obj, hist[2].model, hist[2].variation)
    /\ hist[3].op = "register_simple"
    /\ IsFind
    /\ ret.model = hist[2].model
    /\ ret.result = MappingOf(hist[3].config)

\* debug_lookup for a type with no registration, then register_simple of the
\* type, then find_template and debug_lookup for it
C10_Premise ==
    /\ Len(hist) = 3
    /\ hist[1].op = "debug_lookup"
    /\ hist[1].result.t = "dict"
    /\ \A i \in 1..4 : ~hist[1].result.lookup_hierarchy[i].found
    /\ hist[2].op = "register_simple"
    /\ hist[2].obj.name = hist[1].obj.cls
    /\ hist[3].op = "find_template"
    /\ hist[3].obj = hist[1].obj
    /\ ret.op = "debug_lookup"
    /\ ret.obj = hist[1].obj
    /\ ret.result.t = "dict"

\* C10: the miss count the second debug_lookup reports is greater than the one
\* the first reported.
C10_MissCountIncreases ==
    C10_Premise => ret.result.cache_info.misses > hist[1].result.cache_info.misses

\* What the code reports instead: cache_clear() in register resets the
\* statistics, so the second debug_lookup reports the misses since then,
\* whatever the first reported: 1 when it repeats the lookup of find_template,
\* 2 when it makes another.
C10_MissCountRestarts ==
    C10_Premise =>
        ret.result.cache_info.misses =
            IF <<ModelName(ret.model), VariationStr(ret.variation)>>
               = <<ModelName(hist[3].model), VariationStr(hist[3].variation)>>
            THEN 1 ELSE 2

\* The first debug_lookup reported two misses, the second reports one
C10_MissCountDecreases ==
    /\ C10_Premise
    /\ hist[1].result.cache_info.misses = 2
    /\ ret.result.cache_info.misses = 1

----------------------------------------------------------------------------
(* Lookups of several type names on a registry that holds little *)

InitConvention == InitWith(1)

RegisterSimpleConvention ==
    /\ RegisterSimple(1, Type(Student), StrVal(TemplateA), None, None, None)
    /\ Remember(0)

RegisterPatternConvention ==
    \E pattern_func \in {"failing_pattern", "other_pattern"} :
        /\ Len(patterns[1]) < MaxPatterns
        /\ RegisterPattern(1, pattern_func)
        /\ Remember(0)

FindTemplateConvention ==
    \E cls \in {Student, StudentRecord, IDCard},
       model \in {None, Type(Enrollment), Type(StudentRecord)},
       variation \in {None, StrVal(completed), StrVal(Done), EnrollmentStatus_COMPLETED} :
        /\ LookupsWithin(MaxConventionLookups)
        /\ FindTemplate(1, Object(cls), model, variation)
        /\ Remember(0)

NextConvention ==
    \/ RegisterSimpleConvention
    \/ RegisterPatternConvention
    \/ FindTemplateConvention

SpecConvention == InitConvention /\ [][NextConvention]_vars

\* The number of uppercase letters of name among its 2nd to i-th
UppersUpTo(name, i) == Cardinality({j \in 2..i : IsUpper(name[j])})

\* name with '_' before every uppercase letter but the first character, in
\* lowercase: the i-th character goes to place i + UppersUpTo(name, i), lowered,
\* and the places left are the '_'
Snake(name) ==
    [p \in 1..(Len(name) + UppersUpTo(name, Len(name))) |->
        IF \E i \in 1..Len(name) : p = i + UppersUpTo(name, i)
        THEN LowerChar(name[CHOOSE i \in 1..Len(name) : p = i + UppersUpTo(name, i)])
        ELSE "_"]

\* snake(primary)[/snake(secondary)][/lowercase(variation)].html, an enum member
\* giving its value
ConventionPath(cls, model, variation) ==
    Snake(cls)
    \o (IF model = None THEN <<>> ELSE <<"/">> \o Snake(model.name))
    \o (IF variation = None THEN <<>>
        ELSE <<"/">> \o Lower(IF IsEnum(variation) THEN variation.value.v
                               ELSE variation.v))
    \o <<".", "h", "t", "m", "l">>

C7_Premise ==
    /\ IsFind
    /\ RegisteredCandidates(ret.self, ret.obj, ret.model, ret.variation) = {}
    /\ Matching(ret.self, ret.obj, ret.model, ret.variation) = {}

\* C7: with no matching registration and no matching pattern function,
\* find_template returns the template whose path is
\* snake(primary)[/snake(secondary)][/lowercase(variation)].html; StudentRecord
\* gives student_record.html, and with Enrollment and "completed"
\* student_record/enrollment/completed.html.
C7_ConventionFallback ==
    C7_Premise =>
        /\ ret.result =
               TemplateMapping(ConventionPath(ret.obj.cls, ret.model, ret.variation))
        /\ (ret.obj.cls = StudentRecord /\ ret.model = None /\ ret.variation = None)
            => ret.result.path =
                   <<"s", "t", "u", "d", "e", "n", "t", "_", "r", "e", "c", "o", "r", "d",
                     ".", "h", "t", "m", "l">>
        /\ (/\ ret.obj.cls = StudentRecord
            /\ ret.model = Type(Enrollment)
            /\ VariationStr(ret.variation) = StrVal(completed))
            => ret.result.path =
                   <<"s", "t", "u", "d", "e", "n", "t", "_", "r", "e", "c", "o", "r", "d",
                     "/", "e", "n", "r", "o", "l", "l", "m", "e", "n", "t",
                     "/", "c", "o", "m", "p", "l", "e", "t", "e", "d",
                     ".", "h", "t", "m", "l">>

\* A type name with two capitals in a row, a secondary type and a variation
\* with a capital, past a pattern function that raises
C7_Witness ==
    /\ C7_Premise
    /\ patterns[ret.self] # <<>>
    /\ ret.obj.cls = IDCard
    /\ ret.model = Type(StudentRecord)
    /\ ret.variation = StrVal(Done)
    /\ ret.result.path =
           <<"i", "_", "d", "_", "c", "a", "r", "d", "/",
             "s", "t", "u", "d", "e", "n", "t", "_", "r", "e", "c", "o", "r", "d", "/",
             "d", "o", "n", "e", ".", "h", "t", "m", "l">>

----------------------------------------------------------------------------
(* Registering, overwriting, unregistering and clearing on one registry *)

\* The refinements a registration is made or removed with: none, a secondary
\* type, a variation as a string, the same variation as an enum member
Refinements ==
    { <<None, None>>, <<Type(Enrollment), None>>,
      <<None, StrVal(active)>>, <<None, EnrollmentStatus_ACTIVE>> }

InitTable == InitWith(1)

RegisterSimpleTable ==
    \E target \in Targets, r \in Refinements :
        /\ RegisterSimple(1, Type(Student), target[1], target[2], r[1], r[2])
        /\ TableWithin(1, MaxTableKeys)
        /\ Remember(1)

UnregisterTable ==
    \E r \in Refinements :
        /\ Unregister(1, Type(Student), r[1], r[2])
        /\ Remember(1)

ClearTable == Clear(1) /\ Remember(1)

RegisterPatternTable ==
    /\ patterns[1] = <<>>
    /\ RegisterPattern(1, "always_override_pattern")
    /\ Remember(1)

FindTemplateTable ==
    \E r \in Refinements :
        /\ LookupsWithin(MaxTableLookups)
        /\ FindTemplate(1, Object(Student), r[1], r[2])
        /\ Remember(1)

NextTable ==
    \/ RegisterSimpleTable
    \/ UnregisterTable
    \/ ClearTable
    \/ RegisterPatternTable
    \/ FindTemplateTable

SpecTable == InitTable /\ [][NextTable]_vars

\* The registrations of type T for the key of the refinements r: the secondary
\* type by name, the variation by its normalized string
EntriesOf(self, T, r) == Entries(self, T, ModelName(r[1]), VariationStr(r[2]))

\* A step is the call unregister(T, model=r[1], variation=r[2]) on self
IsUnregisterStep(self, T, r) ==
    /\ ret'.op = "unregister"
    /\ ret'.self = self
    /\ ret'.obj = Type(T)
    /\ <<ret'.model, ret'.variation>> = r

\* The call returns whether a registration for the key was in the table, none
\* is there after it, the other registrations stay, and a repeated call
\* returns False.
UnregisterStep(self, T, r) ==
    IsUnregisterStep(self, T, r)
    => /\ ret'.result = [t |-> "bool", v |-> EntriesOf(self, T, r) # {}]
       /\ EntriesOf(self, T, r)' = {}
       /\ registrations'[self] =
              [k \in DOMAIN registrations[self] \ EntriesOf(self, T, r) |->
                  registrations[self][k]]
       /\ (/\ ret.op = "unregister"
           /\ <<ret.self, ret.obj, ret.model, ret.variation>> = <<self, Type(T), r[1], r[2]>>)
           => ~ret'.result.v

\* The same for the registration made with exactly the refinements r, an enum
\* member being another refinement than the string of its value
UnregisterStepAsRegistered(self, T, r) ==
    IsUnregisterStep(self, T, r)
    => /\ ret'.result = [t |-> "bool", v |-> Stored(self, T, r[1], r[2]) # {}]
       /\ Stored(self, T, r[1], r[2])' = {}
       /\ registrations'[self] =
              [k \in DOMAIN registrations[self] \ Stored(self, T, r[1], r[2]) |->
                  registrations[self][k]]
       /\ (/\ ret.op = "unregister"
           /\ <<ret.self, ret.obj, ret.model, ret.variation>> = <<self, Type(T), r[1], r[2]>>)
           => ~ret'.result.v

\* Right after unregister the lookups of the type give what the remaining
\* registrations, the pattern functions and the convention give
UnregisterForgets ==
    ret.op = "unregister" =>
        \A q \in Refinements :
            FindTemplateOutcome(ret.self, Object(ret.obj.name), q[1], q[2]).result
            = Uncached(ret.self, Object(ret.obj.name), q[1], q[2])

\* C11: unregister returns true exactly when a registration for the key was
\* in the table and removes it, so a second call for the same key returns
\* false, and find_template no longer returns the removed registration: it
\* gives what the remaining registrations, the pattern functions or the
\* convention give.
C11_IdempotentUnregister ==
    /\ [][\A self \in {1}, r \in Refinements : UnregisterStep(self, Student, r)]_vars
    /\ []UnregisterForgets

\* What holds of unregister: the claim for refinements given as they were
\* registered
UnregisterAsRegistered ==
    /\ [][\A self \in {1}, r \in Refinements :
              UnregisterStepAsRegistered(self, Student, r)]_vars
    /\ []UnregisterForgets

\* C12: after a registration for a key, the table holds exactly one
\* registration for that key, the one just made, and find_template with the
\* same secondary type and variation returns its target, whatever was
\* registered or looked up before.
C12_LastWriteWins ==
    (ret.op = "register_simple" /\ ret.result = None) =>
        /\ Entries(ret.self, ret.obj.name, ModelName(ret.model),
                   VariationStr(ret.variation))
           = Stored(ret.self, ret.obj.name, ret.model, ret.variation)
        /\ \A k \in Stored(ret.self, ret.obj.name, ret.model, ret.variation) :
               registrations[ret.self][k] = ret.config
        /\ Stored(ret.self, ret.obj.name, ret.model, ret.variation) # {}
        /\ FindTemplateOutcome(ret.self, Object(ret.obj.name), ret.model,
                               ret.variation).result
           = MappingOf(ret.config)

\* The same with strings and no enum members among the variations registered
C12_LastWriteWinsOfStrings ==
    (\A k \in DOMAIN registrations[ret.self] :
        ~IsEnum(registrations[ret.self][k].variation))
    => C12_LastWriteWins

\* After clear(): a lookup that had returned a registered target, past a
\* pattern function that was registered
C13_Witness ==
    /\ ret.op = "clear"
    /\ hist # <<>>
    /\ hist[1].op = "find_template"
    /\ hist[1].result = TemplateMapping(TemplateA)

\* C13: right after clear() the table and the pattern functions of the
\* registry are empty and every lookup gives the convention target.
C13_ClearDropsAll ==
    ret.op = "clear" =>
        /\ registrations[ret.self] = EmptyTable
        /\ patterns[ret.self] = <<>>
        /\ cache = <<>>
        /\ \A r \in Refinements :
               FindTemplateOutcome(ret.self, Object(Student), r[1], r[2]).result
               = ConventionTarget(Object(Student), r[1], r[2])

----------------------------------------------------------------------------
(* jinja2 as SmartTemplates calls it *)

\* Python's  sub in s  for two str
Contains(sub, s) ==
    \E i \in 0..(Len(s) - Len(sub)) : \A j \in 1..Len(sub) : s[i + j] = sub[j]

Bool(b) == [t |-> "bool", v |-> b]
EmptyStr == StrVal(<<>>)

\* An exception with the message str(e) gives
RaisedWith(exc, message) == [t |-> "raise", exc |-> exc, message |-> message]

\* The class an exception class derives from; jinja2's TemplateNotFound,
\* TemplateSyntaxError and UndefinedError are TemplateError
BaseOf(exc) ==
    CASE exc \in {"TemplateNotFound", "TemplateSyntaxError", "TemplateRuntimeError"}
            -> "TemplateError"
      [] exc = "UndefinedError" -> "TemplateRuntimeError"
      [] OTHER -> "Exception"

\* isinstance(e, cls), which an except clause tests
RECURSIVE IsInstance(_, _)
IsInstance(exc, cls) ==
    \/ exc = cls
    \/ exc # "Exception" /\ IsInstance(BaseOf(exc), cls)

\* Keys of a context
title == <<"t", "i", "t", "l", "e">>
object == <<"o", "b", "j", "e", "c", "t">>
debug_mode == <<"d", "e", "b", "u", "g", "_", "m", "o", "d", "e">>

\* What a template or a macro does when it runs: the names it prints
\* ({{ title }}), the names it reads an attribute of ({{ object.name }}), what
\* an expression of it raises (None when nothing), and the text it gives
Body(prints, reads, raises, text) ==
    [prints |-> prints, reads |-> reads, raises |-> raises, text |-> text]

\* A macro: {% macro name(arguments) %}; catch_kwargs when its body uses kwargs
Macro(arguments, catch_kwargs, body) ==
    [arguments |-> arguments, catch_kwargs |-> catch_kwargs, body |-> body]

\* A file of the template directory: whether it compiles, its top level, its macros
TemplateFile(compiles, body, macros) ==
    [compiles |-> compiles, body |-> body, macros |-> macros]

NoMacros == [k \in {} |-> None]

UnsupportedOperand == <<"u", "n", "s", "u", "p", "p", "o", "r", "t", "e", "d", " ", "o", "p", "e", "r", "a", "n", "d", " ", "t", "y", "p", "e", "(", "s", ")", " ", "f", "o", "r", " ", "+", ":", " ", "'", "i", "n", "t", "'", " ", "a", "n", "d", " ", "'", "s", "t", "r", "'">>
UnexpectedKeyword == <<"g", "e", "t", "_", "n", "a", "m", "e", "(", ")", " ", "g", "o", "t", " ", "a", "n", " ", "u", "n", "e", "x", "p", "e", "c", "t", "e", "d", " ", "k", "e", "y", "w", "o", "r", "d", " ", "a", "r", "g", "u", "m", "e", "n", "t", " ", "'", "x", "'">>

card == <<"c", "a", "r", "d">>
badge == <<"b", "a", "d", "g", "e">>
total == <<"t", "o", "t", "a", "l">>
count == <<"c", "o", "u", "n", "t">>

DetailPage == <<"d">> \o html
BrokenPage == <<"s">> \o html
DividingPage == <<"z">> \o html
FailingPage == <<"r">> \o html
MissingPage == <<"n">> \o html

\* The template directory.  a.html prints title; b.html holds the macros;
\* d.html reads object.name; s.html does not compile; z.html divides by zero;
\* r.html fails at run time inside the engine.  n.html is not there.
Directory ==
    (TemplateA :> TemplateFile(TRUE, Body({title}, {}, None, <<"A">>), NoMacros))
    @@ (TemplateB :> TemplateFile(TRUE, Body({}, {}, None, <<>>),
            (render_student :> Macro({object}, FALSE, Body({}, {object}, None, <<"R">>)))
            @@ (card :> Macro({object, debug_mode}, FALSE,
                              Body({}, {object}, None, <<"C">>)))
            @@ (badge :> Macro({}, TRUE,
                               Body({}, {}, RaisedWith("TypeError", UnsupportedOperand),
                                    <<"B">>)))
            @@ (total :> Macro({}, TRUE, Body({}, {}, Raised("ZeroDivisionError"), <<"T">>)))
            @@ (count :> Macro({}, TRUE,
                               Body({}, {}, RaisedWith("TypeError", UnexpectedKeyword),
                                    <<"N">>)))))
    @@ (DetailPage :> TemplateFile(TRUE, Body({}, {object}, None, <<"D">>), NoMacros))
    @@ (BrokenPage :> TemplateFile(FALSE, Body({}, {}, None, <<>>), NoMacros))
    @@ (DividingPage :>
            TemplateFile(TRUE, Body({}, {}, Raised("ZeroDivisionError"), <<>>), NoMacros))
    @@ (FailingPage :>
            TemplateFile(TRUE, Body({}, {}, Raised("TemplateRuntimeError"), <<>>), NoMacros))

\* The names env.globals defines for every template
Globals == {debug_mode, <<"d", "e", "b", "u", "g", "_", "v", "a", "r">>, <<"s", "a", "f", "e", "_", "g", "e", "t">>}

\* Running a body with the names that are defined.  Reading an attribute of an
\* undefined name raises UndefinedError; printing one raises it with
\* StrictUndefined and prints nothing with the default Undefined.
Evaluate(body, defined, undefined) ==
    IF body.reads \ defined # {} THEN Raised("UndefinedError")
    ELSE IF undefined = "StrictUndefined" /\ body.prints \ defined # {}
    THEN Raised("UndefinedError")
    ELSE IF body.raises # None THEN body.raises
    ELSE StrVal(body.text)

\* env.get_template(template_name)
GetTemplate(template_name) ==
    IF template_name \notin DOMAIN Directory THEN Raised("TemplateNotFound")
    ELSE IF ~Directory[template_name].compiles THEN Raised("TemplateSyntaxError")
    ELSE [t |-> "template", name |-> template_name]

\* template.render(**template_context)
Render(template, template_context, undefined) ==
    Evaluate(Directory[template.name].body, DOMAIN template_context \cup Globals,
             undefined)

\* template.module: the top level runs without a context; the attributes of
\* the module are the macros
Module(template, undefined) ==
    LET ran == Evaluate(Directory[template.name].body, Globals, undefined)
    IN  IF ran.t = "raise" THEN ran
        ELSE [t |-> "module", attributes |-> DOMAIN Directory[template.name].macros]

\* repr() of a str without quotes in it
Repr(s) == <<"'">> \o s \o <<"'">>

\* macro(**template_context): a keyword that is no argument of the macro is a
\* TypeError unless the macro takes kwargs; an argument that is not given is
\* undefined in the body
MacroCall(template, macro_name, template_context, undefined) ==
    LET macro == Directory[template.name].macros[macro_name]
        rest == DOMAIN template_context \ macro.arguments
    IN  IF ~macro.catch_kwargs /\ rest # {}
        THEN RaisedWith("TypeError",
                        <<"m", "a", "c", "r", "o", " ">> \o Repr(macro_name) \o <<" ", "t", "a", "k", "e", "s", " ", "n", "o", " ", "k", "e", "y", "w", "o", "r", "d", " ", "a", "r", "g", "u", "m", "e", "n", "t", " ">>
                        \o Repr(CHOOSE k \in rest : TRUE))
        ELSE Evaluate(macro.body,
                      (macro.arguments \cap DOMAIN template_context) \cup Globals,
                      undefined)

----------------------------------------------------------------------------
(* SmartTemplates *)

\* SmartTemplates(directory, registry, debug_mode=debug, **kwargs): undefined
\* is what kwargs gives the Environment, "Undefined" when they give nothing
SmartTemplatesObject(registry, debug, undefined) ==
    [registry |-> registry, debug_mode |-> debug, undefined |-> undefined]

\* The fields of TemplateErrorDetail that the render calls set apart from the
\* message, the context types, the stack trace and the timestamp
TemplateErrorDetail(error_type, template_name, macro_name) ==
    [error_type |-> error_type, template_name |-> template_name,
     macro_name |-> macro_name]

RenderError(error) == [t |-> "RenderError", success |-> FALSE, error |-> error]

\* The tuple a render call returns
Returned(content, error) == [t |-> "tuple", content |-> content, error |-> error]

\* No copy: the same dict under the next name
DictAlias(dicts, ref) == dicts

\* setdefault that overwrites the key
SetDefaultOverwrites(dicts, ref, key, value) ==
    [dicts EXCEPT ![ref] =
        [k \in DOMAIN @ \cup {key} |-> IF k = key THEN value ELSE @[k]]]

\* The dicts of a call, by reference: the caller's mapping is dicts[1].
\* context.copy() makes a new dict with the same items
DictCopy(dicts, ref) == Append(dicts, dicts[ref])

\* d.setdefault(key, value) on the dict at ref
SetDefault(dicts, ref, key, value) ==
    [dicts EXCEPT ![ref] =
        IF key \in DOMAIN @ THEN @
        ELSE [k \in DOMAIN @ \cup {key} |-> IF k = key THEN value ELSE @[k]]]

\* The error_type the except clauses of render_safe give an exception
RenderSafeErrorType(exc) ==
    IF IsInstance(exc, "TemplateNotFound") THEN "TemplateNotFound"
    ELSE IF IsInstance(exc, "UndefinedError") THEN "UndefinedVariable"
    ELSE IF IsInstance(exc, "TemplateSyntaxError") THEN "TemplateSyntaxError"
    ELSE IF IsInstance(exc, "TemplateError") THEN "TemplateError"
    ELSE exc

\* render_safe(template_name, context) of the SmartTemplates object st, context
\* being the dict at ref: the dicts after it, the context the engine rendered
\* with (None when it rendered nothing) and what is returned
RenderSafeOn(st, dicts, ref, template_name) ==
    LET copied == DictCopy(dicts, ref)
        template_context == Len(copied)
        after == SetDefault(copied, template_context, debug_mode, Bool(st.debug_mode))
        template == GetTemplate(template_name)
        rendered == IF template.t = "raise" THEN template
                    ELSE Render(template, after[template_context], st.undefined)
    IN  [dicts |-> after,
         engine_context |-> IF template.t = "raise" THEN None
                            ELSE [t |-> "dict", v |-> after[template_context]],
         result |->
            IF rendered.t # "raise" THEN Returned(rendered, None)
            ELSE Returned(EmptyStr,
                          RenderError(TemplateErrorDetail(
                              RenderSafeErrorType(rendered.exc),
                              StrVal(template_name), None)))]

\* The error safe_macro returns for a macro the module does not have, without
\* the attribute
MacroNotFoundUnnamed(template_name, macro_name) ==
    RenderError(TemplateErrorDetail("MacroNotFound", StrVal(template_name), None))

\* The error safe_macro returns for a macro the module does not have
MacroNotFound(template_name, macro_name) ==
    RenderError(TemplateErrorDetail("MacroNotFound", StrVal(template_name),
                                    StrVal(macro_name)))

\* The test of the except TypeError clause on str(e).lower()
IsArgumentMessage(message) ==
    LET lowered == Lower(message)
    IN  \/ Contains(<<"a", "r", "g", "u", "m", "e", "n", "t", "s">>, lowered)
        \/ Contains(<<"u", "n", "e", "x", "p", "e", "c", "t", "e", "d", " ", "k", "e", "y", "w", "o", "r", "d">>, lowered)

\* What the except clauses of safe_macro make of an exception: the error
\* returned, or the exception raised again
SafeMacroExcept(e, template_name, macro_name) ==
    LET error(error_type) ==
            Returned(EmptyStr,
                     RenderError(TemplateErrorDetail(error_type, StrVal(template_name),
                                                     StrVal(macro_name))))
    IN  IF IsInstance(e.exc, "UndefinedError") THEN error("UndefinedVariable")
        ELSE IF IsInstance(e.exc, "TemplateError") THEN error("TemplateError")
        ELSE IF IsInstance(e.exc, "TypeError")
        THEN IF IsArgumentMessage(e.message) THEN error("MacroArgumentError") ELSE e
        ELSE error(e.exc)

\* safe_macro(template_name, macro_name, context) of st, context being the dict
\* at ref: the dicts after it, the keywords the macro was called with (None
\* when none was called) and what is returned or raised
SafeMacroOn(st, dicts, ref, template_name, macro_name) ==
    LET copied == DictCopy(dicts, ref)
        template_context == Len(copied)
        after == SetDefault(copied, template_context, debug_mode, Bool(st.debug_mode))
        template == GetTemplate(template_name)
        module == IF template.t = "raise" THEN template
                  ELSE Module(template, st.undefined)
        has == module.t # "raise" /\ macro_name \in module.attributes
        rendered == IF has
                    THEN MacroCall(template, macro_name, after[template_context],
                                   st.undefined)
                    ELSE module
    IN  [dicts |-> after,
         engine_context |-> IF has THEN [t |-> "dict", v |-> after[template_context]]
                            ELSE None,
         result |->
            IF module.t # "raise" /\ ~has
            THEN Returned(EmptyStr, MacroNotFound(template_name, macro_name))
            ELSE IF rendered.t # "raise" THEN Returned(rendered, None)
            ELSE SafeMacroExcept(rendered, template_name, macro_name)]

\* RenderMapping that renders the template of a macro mapping as a page
RenderMappingAsPage(st, mapping, dicts, ref) ==
    RenderSafeOn(st, dicts, ref,
                 IF mapping.type = "macro" THEN mapping.template ELSE mapping.path)

\* The last lines of render_obj: safe_macro for a macro mapping, render_safe
\* for a template mapping, with the dict at ref
RenderMapping(st, mapping, dicts, ref) ==
    IF mapping.type = "macro"
    THEN SafeMacroOn(st, dicts, ref, mapping.template, mapping.macro)
    ELSE RenderSafeOn(st, dicts, ref, mapping.path)

\* What render_obj gives when find_template gave found and the rest gave out
RenderObjOut(found, out) ==
    [found |-> found, dicts |-> out.dicts, engine_context |-> out.engine_context,
     result |-> out.result]

\* render_obj after find_template gave found: a copy of the context with obj
\* as "object" unless the key is there, then the mapping is rendered with the copy
RenderObjFound(st, found, dicts, ref, obj) ==
    LET copied == DictCopy(dicts, ref)
        render_context == Len(copied)
    IN  IF found.result.t = "raise"
        THEN RenderObjOut(found, [dicts |-> dicts, engine_context |-> None,
                                  result |-> found.result])
        ELSE IF ~Truthy(found.result)
        THEN RenderObjOut(found,
                 [dicts |-> dicts, engine_context |-> None,
                  result |-> Returned(EmptyStr,
                                      RenderError(TemplateErrorDetail("TemplateNotFound",
                                                                      None, None)))])
        ELSE RenderObjOut(found,
                 RenderMapping(st, found.result,
                               SetDefault(copied, render_context, object, obj),
                               render_context))

\* render_obj(obj, context, model=, variation=) of st on the cache (c, h, m),
\* context being the dict at ref
RenderObjOn(st, c, h, m, dicts, ref, obj, model, variation) ==
    RenderObjFound(st, FindTemplateOn(c, h, m, st.registry, obj, model, variation),
                   dicts, ref, obj)

\* A render call: what it was given and what came of it
RenderCall(op, template_name, macro_name, obj, model, variation, given, out) ==
    [op |-> op, template_name |-> template_name, macro_name |-> macro_name,
     obj |-> obj, model |-> model, variation |-> variation, context |-> given,
     engine_context |-> out.engine_context, result |-> out.result]

\* set_debug_mode(debug)
SetDebugMode(debug) ==
    /\ templates # None
    /\ templates' = [templates EXCEPT !.debug_mode = debug]
    /\ ret' = RenderCall("set_debug_mode", None, None, None, None, None, Bool(debug),
                         [engine_context |-> None, result |-> None])
    /\ UNCHANGED <<threads, context, instances, registrations, patterns, cache, hits, misses>>

\* render_safe(template_name, context) with the mapping of the caller
RenderSafe(template_name) ==
    /\ templates # None
    /\ \E out \in {RenderSafeOn(templates, <<context>>, 1, template_name)} :
            /\ context' = out.dicts[1]
            /\ ret' = RenderCall("render_safe", template_name, None, None, None, None,
                                 context, out)
            /\ UNCHANGED <<threads, templates, instances, registrations, patterns, cache, hits,
                           misses>>

\* safe_macro(template_name, macro_name, context) with the mapping of the caller
SafeMacro(template_name, macro_name) ==
    /\ templates # None
    /\ \E out \in {SafeMacroOn(templates, <<context>>, 1, template_name, macro_name)} :
            /\ context' = out.dicts[1]
            /\ ret' = RenderCall("safe_macro", template_name, macro_name, None, None, None,
                                 context, out)
            /\ UNCHANGED <<threads, templates, instances, registrations, patterns, cache, hits,
                           misses>>

\* render_obj(obj, context, model=, variation=) with the mapping of the caller
RenderObj(obj, model, variation) ==
    /\ templates # None
    /\ \E out \in {RenderObjOn(templates, cache, hits, misses, <<context>>, 1, obj, model,
                               variation)} :
            /\ context' = out.dicts[1]
            /\ cache' = out.found.cache
            /\ hits' = out.found.hits
            /\ misses' = out.found.misses
            /\ ret' = RenderCall("render_obj", None, None, obj, model, variation, context,
                                 out)
            /\ UNCHANGED <<threads, templates, instances, registrations, patterns>>

----------------------------------------------------------------------------
(* Rendering with one SmartTemplates object over one registry *)

absent_macro == <<"n", "o", "n", "e", "x", "i", "s", "t", "e", "n", "t", "_", "m", "a", "c", "r", "o">>

EmptyContext == [k \in {} |-> None]

\* The mappings the caller renders with; its own "object" is not the object
\* that is rendered
Contexts ==
    { EmptyContext,
      (object :> Object(Enrollment)),
      (title :> StrVal(<<"T">>)) @@ (object :> Object(Enrollment))
          @@ (debug_mode :> Bool(TRUE)) }

\* What Student is registered with
RenderTargets ==
    { <<StrVal(TemplateA), None>>, <<StrVal(DetailPage), None>>,
      <<StrVal(MissingPage), None>>,
      <<StrVal(TemplateB), StrVal(render_student)>>, <<StrVal(TemplateB), StrVal(card)>> }

InitRender == InitWith(1)

\* SmartTemplates(directory, registry, **kwargs), debug_mode being False
NewSmartTemplates ==
    \E debug \in {FALSE}, undefined \in {"Undefined", "StrictUndefined"} :
        /\ templates = None
        /\ templates' = SmartTemplatesObject(1, debug, undefined)
        /\ ret' = RenderCall("__init__", None, None, None, None, None, None,
                             [engine_context |-> None, result |-> None])
        /\ UNCHANGED <<threads, context, instances, registrations, patterns, cache, hits, misses>>
        /\ Remember(0)

\* The caller makes the mapping it will render with
NewContext ==
    \E given \in Contexts :
        /\ context' = given
        /\ ret' = RenderCall("dict", None, None, None, None, None, given,
                             [engine_context |-> None, result |-> None])
        /\ UNCHANGED <<threads, templates, instances, registrations, patterns, cache, hits,
                       misses>>
        /\ Remember(0)

SetDebugModeRender == \E debug \in BOOLEAN : SetDebugMode(debug) /\ Remember(0)

RegisterSimpleRender ==
    \E target \in RenderTargets :
        /\ RegisterSimple(1, Type(Student), target[1], target[2], None, None)
        /\ Remember(0)

RenderSafeRender ==
    \E template_name \in DOMAIN Directory \cup {MissingPage} :
        /\ context # None
        /\ RenderSafe(template_name)
        /\ Remember(0)

SafeMacroRender ==
    \E template_name \in {TemplateA, TemplateB, BrokenPage, MissingPage},
       macro_name \in DOMAIN Directory[TemplateB].macros \cup {absent_macro} :
        /\ context # None
        /\ SafeMacro(template_name, macro_name)
        /\ Remember(0)

RenderObjRender ==
    /\ context # None
    /\ LookupsWithin(MaxRenderLookups)
    /\ RenderObj(Object(Student), None, None)
    /\ Remember(0)

NextRender ==
    \/ NewSmartTemplates
    \/ NewContext
    \/ SetDebugModeRender
    \/ RegisterSimpleRender
    \/ RenderSafeRender
    \/ SafeMacroRender
    \/ RenderObjRender

SpecRender == InitRender /\ [][NextRender]_vars

IsRender == ret.op \in {"render_safe", "safe_macro", "render_obj"}

\* The error_type of the error a render call returned
ErrorTypeOf(result) == result.error.error.error_type

\* A render call returned ("", error) with this error_type
Failed(result, error_type) ==
    /\ result.t = "tuple"
    /\ result.content = EmptyStr
    /\ result.error # None
    /\ ErrorTypeOf(result) = error_type

\* The names a template refers to that the mapping of the caller does not
\* have and the Environment does not define
Absent(template_name, given) ==
    (Directory[template_name].body.prints \cup Directory[template_name].body.reads)
    \ (DOMAIN given \cup Globals)

\* C14: render_safe returns a (content, error) pair and never raises; on
\* failure the content is ""; a template that refers to a variable the context
\* does not have gives ("", UndefinedVariable), a missing template
\* TemplateNotFound, a template that does not compile TemplateSyntaxError.
C14_TotalRendering ==
    ret.op = "render_safe" =>
        /\ ret.result.t = "tuple"
        /\ ret.result.error # None => ret.result.content = EmptyStr
        /\ ret.template_name \notin DOMAIN Directory
            => Failed(ret.result, "TemplateNotFound")
        /\ (ret.template_name \in DOMAIN Directory
            /\ ~Directory[ret.template_name].compiles)
            => Failed(ret.result, "TemplateSyntaxError")
        /\ (/\ ret.template_name \in DOMAIN Directory
            /\ Directory[ret.template_name].compiles
            /\ Absent(ret.template_name, ret.context) # {})
            => Failed(ret.result, "UndefinedVariable")

\* What holds of render_safe: the same when the Environment was made with
\* undefined=StrictUndefined
RenderSafeWhenStrict ==
    (templates # None /\ templates.undefined = "StrictUndefined") => C14_TotalRendering

\* C15: safe_macro returns a ("", error) pair for every failure of loading
\* the template or calling the macro and raises nothing.
C15_MacroContained == ret.op = "safe_macro" => ret.result.t = "tuple"

\* The error kinds of the taxonomy, TemplateError being the generic one
ErrorKinds ==
    {"TemplateNotFound", "UndefinedVariable", "TemplateSyntaxError", "MacroNotFound",
     "MacroArgumentError", "TemplateError"}

\* C16: the error a render call returns has one of the kinds of the closed
\* taxonomy, the generic one for a failure that is none of the others.
C16_ClosedTaxonomy ==
    (IsRender /\ ret.result.t = "tuple" /\ ret.result.error # None)
    => ErrorTypeOf(ret.result) \in ErrorKinds

\* safe_macro for a template that loads and whose module does not have the macro
C17_Premise ==
    /\ ret.op = "safe_macro"
    /\ GetTemplate(ret.template_name).t = "template"
    /\ Module(GetTemplate(ret.template_name), templates.undefined).t = "module"
    /\ ret.macro_name \notin DOMAIN Directory[ret.template_name].macros

C18_Premise ==
    /\ ret.op = "safe_macro"
    /\ ret.engine_context # None
    /\ LET macro == Directory[ret.template_name].macros[ret.macro_name]
       IN  /\ ~macro.catch_kwargs
           /\ DOMAIN ret.engine_context.v \ macro.arguments # {}

\* C18: when the macro is there and does not take the arguments it is called
\* with, safe_macro returns ("", error) with error kind MacroArgumentError.
C18_MacroArgumentError == C18_Premise => Failed(ret.result, "MacroArgumentError")

\* C19: a render call leaves the mapping of the caller with the keys and
\* values it had, whether it succeeds or fails; neither "object" nor
\* "debug_mode" is added to it.
C19_ContextUnchanged == IsRender => context = ret.context

\* render_obj rendered with "object" and "debug_mode" added to an empty mapping
C19_Witness ==
    /\ ret.op = "render_obj"
    /\ ret.context = EmptyContext
    /\ ret.engine_context # None
    /\ DOMAIN ret.engine_context.v = {object, debug_mode}
    /\ ret.result.t = "tuple"
    /\ ret.result.error = None

\* C20: the context render_obj gives the engine has the rendered object
\* under "object" exactly when the mapping of the caller has no "object";
\* the "object" of the caller and every other entry of the caller reach the
\* engine as they are.
C20_ObjectInjection ==
    (ret.op = "render_obj" /\ ret.engine_context # None) =>
        /\ object \in DOMAIN ret.engine_context.v
        /\ ret.engine_context.v[object] = ret.obj <=> object \notin DOMAIN ret.context
        /\ \A k \in DOMAIN ret.context : ret.engine_context.v[k] = ret.context[k]

\* The caller gave its own "object", and it is what the engine rendered with
C20_Witness ==
    /\ ret.op = "render_obj"
    /\ ret.engine_context # None
    /\ object \in DOMAIN ret.context
    /\ ret.engine_context.v[object] = Object(Enrollment)
    /\ ret.result.t = "tuple"
    /\ ret.result.error = None

\* The context render_obj renders with: the mapping of the caller, and obj as
\* "object" when the caller gave none
Injected(given, obj) ==
    IF object \in DOMAIN given THEN given ELSE given @@ (object :> obj)

\* A render_obj step returns what safe_macro gives for a macro mapping and what
\* render_safe gives for a template mapping, with the injected context
RenderObjStep(obj, model, variation) ==
    (ret'.op = "render_obj" /\ ret'.obj = obj) =>
        LET mapping == FindTemplateOutcome(1, obj, model, variation).result
            given == Injected(context, obj)
        IN  ret'.result =
                IF mapping.type = "macro"
                THEN SafeMacroOn(templates, <<given>>, 1, mapping.template,
                                 mapping.macro).result
                ELSE RenderSafeOn(templates, <<given>>, 1, mapping.path).result

\* ("", error) with error kind TemplateNotFound that names the path
NotFoundNaming(result, path) ==
    /\ Failed(result, "TemplateNotFound")
    /\ result.error.error.template_name = StrVal(path)

\* render_obj of a Student with nothing registered names student.html; with a
\* registration for a template that is not there it names the registered path
RenderObjNotFound ==
    ret.op = "render_obj" =>
        /\ registrations[1] = EmptyTable
            => NotFoundNaming(ret.result, <<"s", "t", "u", "d", "e", "n", "t">> \o html)
        /\ (Student \in DOMAIN registrations[1]
            /\ registrations[1][Student].target = MissingPage)
            => NotFoundNaming(ret.result, MissingPage)

C27_MacroLoadingErrors ==
    ret.op = "safe_macro" =>
        /\ ret.template_name \notin DOMAIN Directory
            => Failed(ret.result, "TemplateNotFound")
        /\ (ret.template_name \in DOMAIN Directory
            /\ ~Directory[ret.template_name].compiles)
            => Failed(ret.result, "TemplateSyntaxError")

\* What holds of safe_macro: both come back as ("", error) of the generic kind
MacroLoadingErrorsGeneric ==
    (ret.op = "safe_macro" /\ GetTemplate(ret.template_name).t = "raise")
    => Failed(ret.result, "TemplateError")

----------------------------------------------------------------------------
(* Pattern functions registered between lookups of one key *)

\* Two students of which one has the status status_pattern matches
Students == {Object(Student), ObjectWith(Student, EnrollmentStatus_REATTEMPT)}

NextResolvers ==
    \/ /\ RegisterSimple(1, Type(Student), StrVal(TemplateA), None, None, None)
       /\ Remember(2)
    \/ /\ Unregister(1, Type(Student), None, None)
       /\ Remember(2)
    \/ \E pattern_func \in {"status_pattern", "always_override_pattern"} :
        /\ Len(patterns[1]) < MaxResolvers
        /\ RegisterPattern(1, pattern_func)
        /\ Remember(2)
    \/ \E obj \in Students :
        /\ LookupsWithin(MaxResolverLookups)
        /\ FindTemplate(1, obj, None, None)
        /\ Remember(2)

SpecResolvers == InitWith(1) /\ [][NextResolvers]_vars

\* Every entry of the cache holds None or the mapping of a registration of the
\* table, the one the table lookup gives for its key
CacheOfTable ==
    \A i \in 1..Len(cache) :
        LET e == cache[i]
            regs == registrations[e.key[1]]
        IN  /\ e.result = None \/ \E k \in DOMAIN regs : e.result = MappingOf(regs[k])
            /\ e.result = FindTemplateUncached(regs, e.key[2], e.key[3], e.key[4])

\* A lookup with no candidate registered gives what the pattern functions give
\* for the object as it is at this call, and the convention target when none
\* matches, whatever the cache holds
ResolversEvaluated ==
    (IsFind /\ RegisteredCandidates(ret.self, ret.obj, ret.model, ret.variation) = {})
    => LET matching == Matching(ret.self, ret.obj, ret.model, ret.variation)
       IN  ret.result =
               IF matching # {}
               THEN PatternCall(patterns[ret.self][Min(matching)], ret.obj, ret.model,
                                ret.variation)
               ELSE ConventionTarget(ret.obj, ret.model, ret.variation)

\* A lookup gave the convention target, a pattern function was registered,
\* and this is the next lookup, of the same object
AfterRegisterPattern ==
    /\ IsFind
    /\ Len(hist) = 2
    /\ hist[1].op = "find_template"
    /\ hist[1].result = ConventionTarget(hist[1].obj, hist[1].model, hist[1].variation)
    /\ hist[1].obj = ret.obj
    /\ hist[2].op = "register_pattern"

\* C22: the cache holds only what the table lookup gave, a registered target
\* or None, never what a pattern function or the convention gave; so after a
\* lookup fell through to the convention, the lookup that follows
\* register_pattern of a matching pattern function returns its target though
\* nothing cleared the cache, and a pattern function whose answer changes
\* between calls is evaluated at every lookup.
C22_CacheOfTableOnly ==
    /\ CacheOfTable
    /\ ResolversEvaluated
    /\ (/\ AfterRegisterPattern
        /\ PatternCall(hist[2].config, ret.obj, ret.model, ret.variation).t = "dict")
        => ret.result = PatternCall(hist[2].config, ret.obj, ret.model, ret.variation)

\* The lookup after register_pattern was a cache hit and returned the target of
\* the pattern function, where the lookup before gave the convention target
C22_Witness ==
    /\ AfterRegisterPattern
    /\ hits > 0
    /\ hist[2].config = "status_pattern"
    /\ ret.obj = ObjectWith(Student, EnrollmentStatus_REATTEMPT)
    /\ ret.result = TemplateMapping(ReattemptPath)
    /\ cache # <<>>

----------------------------------------------------------------------------
(* Lookups on a cache that is nearly full *)

\* str(n) of a natural number
RECURSIVE Decimal(_)
Decimal(n) ==
    LET digit == <<"0", "1", "2", "3", "4", "5", "6", "7", "8", "9">>[(n % 10) + 1]
    IN  IF n < 10 THEN <<digit>> ELSE Decimal(n \div 10) \o <<digit>>

\* The name of the n-th of the classes that were looked up before: T1, T2, ...
OtherClass(n) == <<"T">> \o Decimal(n)

\* The cache after the lookups of a Student, of an Enrollment and of an object
\* of each of n other classes, on a registry that holds Student -> a.html
CacheAfterLookups(n) ==
    << [key |-> <<1, StrVal(Student), None, None>>,
        result |-> TemplateMapping(TemplateA)],
       [key |-> <<1, StrVal(Enrollment), None, None>>, result |-> None] >>
    \o [i \in 1..n |-> [key |-> <<1, StrVal(OtherClass(i)), None, None>>,
                        result |-> None]]

\* register_simple(Student, template_name="a.html"), then these lookups: the
\* cache holds one entry less than maxsize, or is full
InitLru ==
    \E n \in {maxsize - 3, maxsize - 2} :
        /\ threads = <<>>
        /\ templates = None
        /\ context = None
        /\ instances = {1}
        /\ registrations =
              <<(Student :> RegistrationConfig(TemplateA, "template", TemplateA, None,
                                               None))>>
        /\ patterns = << <<>> >>
        /\ cache = CacheAfterLookups(n)
        /\ hits = 0
        /\ misses = n + 2
        /\ ret = Call("find_template", 1, Object(OtherClass(n)), None, None, None,
                      TemplateMapping(ConventionBasedNameFromStrings(
                          StrVal(OtherClass(n)), None, None).v))
        /\ hist = <<>>

NextLru ==
    \E cls \in {Student, Enrollment, IDCard, Done} :
        /\ hits + misses < maxsize + MaxLruLookups
        /\ FindTemplate(1, Object(cls), None, None)
        /\ Remember(0)

SpecLru == InitLru /\ [][NextLru]_vars

\* The keys the cache c holds
KeysOf(c) == {c[i].key : i \in 1..Len(c)}

\* The entries of c without the one of key, in their order
Without(c, key) == SelectSeq(c, LAMBDA e : e.key # key)

\* A lookup of key: the key is the most recently used after it; a hit keeps
\* the entries; a miss adds the key, in place of the least recently used key
\* when the cache is full; the other entries keep their order of use
LruStep(key) ==
    (ret'.op = "find_template" /\ StrVal(ret'.obj.cls) = key[2]) =>
        /\ cache'[Len(cache')].key = key
        /\ key \in KeysOf(cache) =>
            /\ hits' = hits + 1 /\ misses' = misses
            /\ Without(cache', key) = Without(cache, key)
        /\ (key \notin KeysOf(cache) /\ Len(cache) < maxsize) =>
            /\ misses' = misses + 1 /\ hits' = hits
            /\ Without(cache', key) = cache
        /\ (key \notin KeysOf(cache) /\ Len(cache) >= maxsize) =>
            /\ misses' = misses + 1 /\ hits' = hits
            /\ cache[1].key \notin KeysOf(cache')
            /\ Without(cache', key) = Tail(cache)

\* The cache holds at most maxsize entries, one for a key, and a lookup
\* returns the target of the table whether its key is cached or not
LruBounded ==
    /\ Len(cache) <= maxsize
    /\ Cardinality(KeysOf(cache)) = Len(cache)
    /\ IsFind =>
          ret.result = IF ret.obj.cls = Student THEN TemplateMapping(TemplateA)
                       ELSE ConventionTarget(ret.obj, ret.model, ret.variation)

\* C23: the cache never holds more than its capacity of 256 entries; a miss
\* on a full cache evicts the least recently used entry, a hit being a use;
\* and a lookup of an evicted key still returns its target, computed again.
C23_BoundedLru ==
    /\ [][\A cls \in {Student, Enrollment, IDCard, Done} :
            LruStep(<<1, StrVal(cls), None, None>>)]_vars
    /\ []LruBounded

\* The cache is full; the Student entry, the oldest, was used by a hit, and the
\* lookup of an IDCard evicted the Enrollment entry in its place
C23_Witness ==
    /\ IsFind
    /\ ret.obj.cls = IDCard
    /\ Len(cache) = maxsize
    /\ hits > 0
    /\ <<1, StrVal(Student), None, None>> \in KeysOf(cache)
    /\ <<1, StrVal(Enrollment), None, None>> \notin KeysOf(cache)

----------------------------------------------------------------------------
(* Two registries *)

NextOwners ==
    \E self \in {1, 2} :
        \/ \E target \in Targets :
            /\ RegisterSimple(self, Type(Student), target[1], target[2], None, None)
            /\ Remember(0)
        \/ /\ Unregister(self, Type(Student), None, None)
           /\ Remember(0)
        \/ /\ Clear(self)
           /\ Remember(0)
        \/ /\ LookupsWithin(MaxOwnerLookups)
           /\ FindTemplate(self, Object(Student), None, None)
           /\ Remember(0)

SpecOwners == InitWith(2) /\ [][NextOwners]_vars

\* The entries of the cache c that the lookups of registry self stored
CachedBy(c, self) == SelectSeq(c, LAMBDA e : e.key[1] = self)

\* A step of registry a that is a register_simple, an unregister or a clear
\* leaves what registry b cached and the statistics b reads
OwnStep(a, b) ==
    (ret'.self = a /\ ret'.op \in {"register_simple", "unregister", "clear"}) =>
        /\ CachedBy(cache', b) = CachedBy(cache, b)
        /\ CacheInfo(cache', hits', misses') = CacheInfo(cache, hits, misses)

\* A lookup of registry a leaves what registry b cached
OwnLookup(a, b) ==
    (ret'.self = a /\ ret'.op = "find_template") =>
        CachedBy(cache', b) = CachedBy(cache, b)

\* C24: a registry owns its cache: register, unregister and clear on one
\* registry leave the cached entries, the hit and miss statistics and the
\* size of the cache of another registry as they were, and lookups on one do
\* not evict entries of the other.
C24_CacheOwnership ==
    [][\A a \in {1, 2} : OwnStep(a, 3 - a) /\ OwnLookup(a, 3 - a)]_vars

\* What holds: one cache for the class, the key of an entry naming the
\* registry; a change of the table of a registry empties it for both
CacheOfClass ==
    [][\A a \in {1, 2} :
        (ret'.self = a /\ ret'.op \in {"register_simple", "clear"}) => cache' = <<>>]_vars

----------------------------------------------------------------------------
(* A variation string that is the name of the secondary type *)

\* The variations given: none, "active", and "Enrollment", the name of the
\* class given as model
KeyVariations == {None, StrVal(active), StrVal(Enrollment)}

NextKeys ==
    \/ \E target \in Targets, model \in ModelClasses, variation \in KeyVariations :
        /\ RegisterSimple(1, Type(Student), target[1], target[2], model, variation)
        /\ TableWithin(1, MaxKeyEntries)
        /\ Remember(0)
    \/ \E model \in ModelClasses, variation \in KeyVariations :
        /\ LookupsWithin(MaxKeyLookups)
        /\ FindTemplate(1, Object(Student), model, variation)
        /\ Remember(0)

SpecKeys == InitWith(1) /\ [][NextKeys]_vars

\* What the table lookup of a Student gives before and after the step
LookupBefore(model, variation) ==
    FindTemplateUncached(registrations[1], StrVal(Student), ModelName(model),
                         VariationStr(variation))
LookupAfter(model, variation) ==
    FindTemplateUncached(registrations'[1], StrVal(Student), ModelName(model),
                         VariationStr(variation))

\* A registration with a variation v and no secondary type leaves the lookups
\* with a secondary type and no variation; one with a secondary type M and no
\* variation leaves the lookups with a variation and no secondary type
DistinctKeysStep(M, v) ==
    /\ (ret'.op = "register_simple" /\ ret'.model = None /\ ret'.variation = v)
        => LookupAfter(M, None) = LookupBefore(M, None)
    /\ (ret'.op = "register_simple" /\ ret'.model = M /\ ret'.variation = None)
        => LookupAfter(None, v) = LookupBefore(None, v)

\* A lookup with a variation and no secondary type for which neither
\* (T, absent, variation) nor (T, absent, absent) is registered gives the
\* convention target
NotByOtherKey ==
    (/\ IsFind
     /\ ret.model = None
     /\ RegisteredCandidates(ret.self, ret.obj, ret.model, ret.variation) = {})
    => ret.result = ConventionTarget(ret.obj, ret.model, ret.variation)

\* C25: distinct (primary, secondary, variation) keys never collide: a
\* registration under (T, absent, v) does not change what a lookup with
\* (T, M, no variation) returns, nor the other way round, also when the name
\* of M is the string v; and a registration made with a secondary type only
\* is never selected by the (T, absent, variation) candidate.
C25_DistinctKeys ==
    /\ [][\A M \in {Type(Enrollment)}, v \in KeyVariations \ {None} :
            DistinctKeysStep(M, v)]_vars
    /\ []NotByOtherKey

\* What holds: the same with the variations that are not the name of the
\* secondary type
DistinctKeysOfOtherNames ==
    /\ [][\A M \in {Type(Enrollment)}, v \in {StrVal(active)} :
            DistinctKeysStep(M, v)]_vars
    /\ [](ret.variation # StrVal(Enrollment) => NotByOtherKey)

----------------------------------------------------------------------------
(* debug_lookup of one type with string and enum variations *)

NextDebug ==
    \/ \E target \in Targets, model \in ModelClasses, variation \in Variations :
        /\ RegisterSimple(1, Type(Student), target[1], target[2], model, variation)
        /\ TableWithin(1, MaxKeyEntries)
        /\ Remember(0)
    \/ /\ patterns[1] = <<>>
       /\ RegisterPattern(1, "always_override_pattern")
       /\ Remember(0)
    \/ \E model \in ModelClasses, variation \in Variations :
        /\ LookupsWithin(MaxDebugLookups)
        /\ DebugLookup(1, Object(Student), model, variation)
        /\ Remember(0)

SpecDebug == InitWith(1) /\ [][NextDebug]_vars

IsDebug == ret.op = "debug_lookup" /\ ret.result.t = "dict"

\* The positions of the lookup_hierarchy that are reported found
ReportedFound(info) == {i \in 1..Len(info.lookup_hierarchy) : info.lookup_hierarchy[i].found}

\* The report of debug_lookup: four candidates; when one is reported found the
\* final mapping is the target of the first of them; when none is, it is the
\* target of a pattern function or the convention target
DebugAgrees ==
    LET info == ret.result
        found == ReportedFound(info)
        matching == Matching(ret.self, ret.obj, ret.model, ret.variation)
    IN  /\ Len(info.lookup_hierarchy) = 4
        /\ found # {} =>
              info.final_mapping =
                  MappingOf(info.lookup_hierarchy[Min(found)].registration)
        /\ found = {} =>
              info.final_mapping =
                  IF matching # {}
                  THEN PatternCall(patterns[ret.self][Min(matching)], ret.obj,
                                   ret.model, ret.variation)
                  ELSE ConventionTarget(ret.obj, ret.model, ret.variation)

\* C26: debug_lookup agrees with find_template: it lists the four candidate
\* keys in priority order with a found flag each; when a candidate is
\* reported found the final mapping is the target registered under the first
\* found candidate, and when none is, it comes from a pattern function or the
\* convention; for string and for enum-member variations.
C26_DebugAgrees == IsDebug => DebugAgrees

\* What holds: the same for the lookups whose variation is a string or absent
DebugAgreesOfStrings == (IsDebug /\ ~IsEnum(ret.variation)) => DebugAgrees

----------------------------------------------------------------------------
(* register_simple with a macro name and no template name *)

NextMacroOnly ==
    \/ \E cls \in {Student, IDCard}, model \in ModelClasses, variation \in Variations :
        /\ RegisterSimple(1, Type(cls), None, StrVal(render_student), model, variation)
        /\ TableWithin(1, MaxKeyEntries)
        /\ Remember(0)
    \/ /\ Clear(1)
       /\ Remember(0)

SpecMacroOnly == InitWith(1) /\ [][NextMacroOnly]_vars

\* The registration is a macro whose template is the convention path of a
\* lookup with the same secondary type and variation on an empty registry
MacroOnlyConvention ==
    /\ ret.config.registration_type = "macro"
    /\ ret.config.name = render_student
    /\ TemplateMapping(ret.config.target)
       = ConventionTarget(Object(ret.obj.name), ret.model, ret.variation)

\* C30: register_simple with a macro name and no template name registers a
\* macro whose template is the convention path that find_template returns for
\* an instance of the type with the same model and variation on an empty
\* registry, for every optional model and every optional variation, string or
\* enum member.
C30_MacroOnlyConvention == ret.op = "register_simple" => MacroOnlyConvention

\* What holds: the same for the variations that are a string or absent
MacroOnlyConventionOfStrings ==
    (ret.op = "register_simple" /\ ~IsEnum(ret.variation)) => MacroOnlyConvention

----------------------------------------------------------------------------
(* Calls from several threads, statement by statement. No method takes a lock,
   so a call of one thread is interleaved with the calls of the others between
   any two of its reads and writes of self._registrations and of the cache.
   ret is set where the result of a call is determined: at the return of
   find_template, at the write to the table of the calls that change it. *)

\* One thread changes the table, the other threads look up
Writer == "writer"
Readers == {"reader", "other reader"}

\* hist keeps the calls that changed the table
WriteOps == {"register_simple", "unregister", "clear"}
RememberWrites == hist' = IF ret.op \in WriteOps THEN Append(hist, ret) ELSE hist

\* A thread that made n calls, inside the last of them or after it: the
\* statement it is at, the i-th key_parts of the loop, and the local result
InCall(pc, call, i, found, n) ==
    [pc |-> pc, call |-> call, i |-> i, found |-> found, n |-> n]
Idle(n) == InCall("idle", None, 0, None, n)

\* The wrapper of lru_cache before it calls the function: a hit returns the
\* stored result, makes the entry the most recent and counts; a miss counts
CacheProbe(c, h, m, key) ==
    LET at == {i \in 1..Len(c) : c[i].key = key}
    IN  IF at # {}
        THEN LET i == CHOOSE j \in at : TRUE
             IN  [hit |-> TRUE, result |-> c[i].result,
                  cache |-> SelectSeq(c, LAMBDA e : e.key # key) \o <<c[i]>>,
                  hits |-> h + 1, misses |-> m]
        ELSE [hit |-> FALSE, result |-> None, cache |-> c, hits |-> h,
              misses |-> m + 1]

\* CacheStore that stores the result whether or not the key is in the cache
CacheStoreAgain(c, key, result) ==
    IF Len(c) >= maxsize THEN Tail(c) \o <<[key |-> key, result |-> result]>>
    ELSE c \o <<[key |-> key, result |-> result]>>

\* The wrapper of lru_cache after the function returned: nothing is stored when
\* the key got into the cache during the call, else the result is stored, in
\* place of the oldest entry when the cache is full
CacheStore(c, key, result) ==
    IF \E i \in 1..Len(c) : c[i].key = key THEN c
    ELSE IF Len(c) >= maxsize THEN Tail(c) \o <<[key |-> key, result |-> result]>>
    ELSE c \o <<[key |-> key, result |-> result]>>

\* self._registrations[key] = config
TableWith(regs, key, config) ==
    [k \in DOMAIN regs \cup {key} |-> IF k = key THEN config ELSE regs[k]]

\* CacheKey without the names of the model and of the variation
CacheKeyOfType(call) == <<call.self, StrVal(call.obj.cls), None, None>>

\* The key of the cache entry of a find_template call
CacheKey(call) ==
    <<call.self, StrVal(call.obj.cls), ModelName(call.model),
      VariationStr(call.variation)>>

\* The key of the i-th key_parts of a find_template call
KeyOfParts(call, i) ==
    ColonJoin(KeyParts(StrVal(call.obj.cls), ModelName(call.model),
                       VariationStr(call.variation))[i]).v

\* What find_template returns when _find_template_cached returned found: the
\* pattern functions and the convention come after a result that is not truthy
ReturnOf(call, found) ==
    LET matched == PatternsFrom(patterns[call.self], 1, call.obj, call.model,
                                call.variation)
        path == ConventionBasedNameFromStrings(StrVal(call.obj.cls),
                    ModelName(call.model), VariationStr(call.variation))
    IN  [call EXCEPT !.result =
            IF Truthy(found) THEN found
            ELSE IF Truthy(matched) THEN matched
            ELSE TemplateMapping(path.v)]

\* find_template up to the lookup in the cache, and to its return on a hit
FindTemplateEnter(t, self, obj, model, variation) ==
    LET call == Call("find_template", self, obj, model, variation, None, None)
        probe == CacheProbe(cache, hits, misses, CacheKey(call))
    IN  /\ threads[t].pc = "idle"
        /\ cache' = probe.cache
        /\ hits' = probe.hits
        /\ misses' = probe.misses
        /\ IF probe.hit
           THEN /\ threads' = [threads EXCEPT ![t] = Idle(@.n + 1)]
                /\ ret' = ReturnOf(call, probe.result)
                /\ RememberWrites
           ELSE /\ threads' = [threads EXCEPT ![t] =
                       InCall("key in", call, 1, None, @.n + 1)]
                /\ UNCHANGED <<ret, hist>>
        /\ UNCHANGED <<templates, context, instances, registrations, patterns>>

\* if key in self._registrations, for the key_parts the loop is at
FindTemplateKeyIn(t) ==
    /\ threads[t].pc = "key in"
    /\ threads' = [threads EXCEPT ![t] =
           IF KeyOfParts(@.call, @.i) \in DOMAIN registrations[@.call.self]
           THEN InCall("config", @.call, @.i, None, @.n)
           ELSE IF @.i < 4 THEN InCall("key in", @.call, @.i + 1, None, @.n)
           ELSE InCall("store", @.call, @.i, None, @.n)]
    /\ UNCHANGED <<ret, hist, templates, context, instances, registrations,
                   patterns, cache, hits, misses>>

\* config = self._registrations[key] and the return of the mapping: KeyError
\* when the key left the table since the test
FindTemplateConfig(t) ==
    LET call == threads[t].call
        regs == registrations[call.self]
        key == KeyOfParts(call, threads[t].i)
    IN  /\ threads[t].pc = "config"
        /\ IF key \in DOMAIN regs
           THEN /\ threads' = [threads EXCEPT ![t] =
                       InCall("store", call, @.i, MappingOf(regs[key]), @.n)]
                /\ UNCHANGED <<ret, hist>>
           ELSE /\ threads' = [threads EXCEPT ![t] = Idle(@.n)]
                /\ ret' = [call EXCEPT !.result = Raised("KeyError")]
                /\ RememberWrites
        /\ UNCHANGED <<templates, context, instances, registrations, patterns,
                       cache, hits, misses>>

\* The wrapper of lru_cache stores what _find_template_cached returned, and
\* find_template returns
FindTemplateStore(t) ==
    /\ threads[t].pc = "store"
    /\ cache' = CacheStore(cache, CacheKey(threads[t].call), threads[t].found)
    /\ ret' = ReturnOf(threads[t].call, threads[t].found)
    /\ RememberWrites
    /\ threads' = [threads EXCEPT ![t] = Idle(@.n)]
    /\ UNCHANGED <<templates, context, instances, registrations, patterns, hits,
                   misses>>

\* register_simple up to self._registrations[key] = config
RegisterSimpleSetItem(t, self, obj_type, template_name, macro_name, model, variation) ==
    LET config == SimpleConfig(obj_type, template_name, macro_name, model, variation)
        key == MakeKey(obj_type, model, variation)
    IN  /\ threads[t].pc = "idle"
        /\ registrations' = [registrations EXCEPT ![self] = TableWith(@, key, config)]
        /\ ret' = Call("register_simple", self, obj_type, model, variation, config,
                       None)
        /\ RememberWrites
        /\ threads' = [threads EXCEPT ![t] = InCall("cache_clear", ret', 0, None, @.n + 1)]
        /\ UNCHANGED <<templates, context, instances, patterns, cache, hits, misses>>

\* unregister up to self._registrations.pop(key, None)
UnregisterPop(t, self, obj_type, model, variation) ==
    LET key == MakeKey(obj_type, model, variation)
        removed == key \in DOMAIN registrations[self]
    IN  /\ threads[t].pc = "idle"
        /\ registrations' =
               [registrations EXCEPT ![self] = [j \in DOMAIN @ \ {key} |-> @[j]]]
        /\ ret' = Call("unregister", self, obj_type, model, variation, None,
                       [t |-> "bool", v |-> removed])
        /\ RememberWrites
        /\ threads' = [threads EXCEPT ![t] =
               IF removed THEN InCall("cache_clear", ret', 0, None, @.n + 1)
               ELSE Idle(@.n + 1)]
        /\ UNCHANGED <<templates, context, instances, patterns, cache, hits, misses>>

\* clear up to self._patterns.clear()
ClearTables(t, self) ==
    /\ threads[t].pc = "idle"
    /\ registrations' = [registrations EXCEPT ![self] = EmptyTable]
    /\ patterns' = [patterns EXCEPT ![self] = <<>>]
    /\ ret' = Call("clear", self, None, None, None, None, None)
    /\ RememberWrites
    /\ threads' = [threads EXCEPT ![t] = InCall("cache_clear", ret', 0, None, @.n + 1)]
    /\ UNCHANGED <<templates, context, instances, cache, hits, misses>>

\* self._find_template_cached.cache_clear(), the last statement of register,
\* unregister and clear
CacheClearStep(t) ==
    /\ threads[t].pc = "cache_clear"
    /\ CacheClear
    /\ threads' = [threads EXCEPT ![t] = Idle(@.n)]
    /\ UNCHANGED <<ret, hist, templates, context, instances, registrations,
                   patterns>>

InitThreads ==
    /\ threads = [t \in {Writer} \cup Readers |-> Idle(0)]
    /\ templates = None
    /\ context = None
    /\ instances = {1}
    /\ registrations = <<EmptyTable>>
    /\ patterns = << <<>> >>
    /\ cache = <<>>
    /\ hits = 0
    /\ misses = 0
    /\ ret = Call("__init__", 1, None, None, None, None, None)
    /\ hist = <<>>

\* The calls that changed the table, in their order
Writes == IF ret.op \in WriteOps THEN Append(hist, ret) ELSE hist

\* The threads make a bounded number of calls
ReadsMade == threads["reader"].n + threads["other reader"].n
ReadsWithin == ReadsMade < MaxThreadReads
WritesWithin == threads[Writer].n < MaxThreadWrites

\* The variations of the lookups and of the registrations, and the targets
\* registered with each: no target is registered under two keys
ThreadVariations == {None, StrVal(active)}
TargetsFor(variation) ==
    IF variation = None THEN { <<StrVal(TemplateA), None>> }
    ELSE { <<StrVal(TemplateB), StrVal(card)>> }

NextThreads ==
    \/ \E t \in Readers, variation \in ThreadVariations :
        /\ ReadsWithin
        /\ FindTemplateEnter(t, 1, Object(Student), None, variation)
    \/ \E t \in Readers : FindTemplateKeyIn(t)
    \/ \E t \in Readers : FindTemplateConfig(t)
    \/ \E t \in Readers : FindTemplateStore(t)
    \/ \E variation \in ThreadVariations : \E target \in TargetsFor(variation) :
        /\ WritesWithin
        /\ RegisterSimpleSetItem(Writer, 1, Type(Student), target[1], target[2],
                                 None, variation)
    \/ /\ WritesWithin
       /\ UnregisterPop(Writer, 1, Type(Student), None, None)
    \/ /\ WritesWithin
       /\ ClearTables(Writer, 1)
    \/ CacheClearStep(Writer)

SpecThreads == InitThreads /\ [][NextThreads]_vars

\* The registrations made: the key of the table and the mapping of each
Held ==
    {<<MakeKey(Writes[j].obj, Writes[j].model, Writes[j].variation),
       MappingOf(Writes[j].config)>> :
        j \in {i \in 1..Len(Writes) : Writes[i].op = "register_simple"}}

\* What the table held at some time for a lookup, given the registrations made:
\* nothing, as it does after construction, or a registration made under one of
\* the keys of the lookup
HeldFor(held, obj_type_name, model_name, variation_str) ==
    LET key_parts == KeyParts(obj_type_name, model_name, variation_str)
        keys == {ColonJoin(key_parts[i]).v : i \in 1..4}
    IN  {None} \cup {h[2] : h \in {x \in held : x[1] \in keys}}

\* Every entry of the cache is under its own key and holds what the table held
\* for the lookup of that key
EntriesHeld ==
    LET held == Held
    IN  /\ \A i \in 1..Len(cache) :
              cache[i].result \in HeldFor(held, cache[i].key[2], cache[i].key[3],
                                          cache[i].key[4])
        /\ \A i, j \in 1..Len(cache) : cache[i].key = cache[j].key => i = j

\* The mapping a lookup returned is one the table held for it, or the
\* convention path that stands for nothing registered
ReturnedHeld ==
    (ret.op = "find_template" /\ ret.result.t = "dict") =>
        \/ ret.result \in HeldFor(Held, StrVal(ret.obj.cls), ModelName(ret.model),
                                  VariationStr(ret.variation)) \ {None}
        \/ ret.result = ConventionTarget(ret.obj, ret.model, ret.variation)

\* C28: when lookups are interleaved statement by statement with register_simple,
\* unregister and clear, every entry of the cache and every mapping a lookup
\* returns is what the table held at some time for that lookup, a registered
\* target or nothing, and never a mapping registered for another lookup; the
\* outcome may be one the table no longer holds.
C28_NeverCorrupted == EntriesHeld /\ ReturnedHeld

\* A lookup returned the convention path and left nothing found in the cache
\* although the table holds a registration for it, after every call returned
C28_Witness ==
    /\ \A t \in {Writer} \cup Readers : threads[t].pc = "idle"
    /\ ret.op = "find_template"
    /\ ret.result = ConventionTarget(ret.obj, ret.model, ret.variation)
    /\ FindTemplateUncached(registrations[1], StrVal(ret.obj.cls),
                            ModelName(ret.model), VariationStr(ret.variation)) # None
    /\ \E i \in 1..Len(cache) :
          /\ cache[i].key = <<1, StrVal(ret.obj.cls), ModelName(ret.model),
                              VariationStr(ret.variation)>>
          /\ cache[i].result = None

----------------------------------------------------------------------------
(* Lookups from several threads on a table that is set up before the first of
   them: the writer makes its calls while no lookup was made, the lookups start
   when the writer is in no call *)

NextReaders ==
    \/ \E t \in Readers, variation \in ThreadVariations :
        /\ ReadsWithin
        /\ threads[Writer].pc = "idle"
        /\ FindTemplateEnter(t, 1, Object(Student), None, variation)
    \/ \E t \in Readers : FindTemplateKeyIn(t)
    \/ \E t \in Readers : FindTemplateConfig(t)
    \/ \E t \in Readers : FindTemplateStore(t)
    \/ \E variation \in ThreadVariations : \E target \in TargetsFor(variation) :
        /\ WritesWithin
        /\ ReadsMade = 0
        /\ RegisterSimpleSetItem(Writer, 1, Type(Student), target[1], target[2],
                                 None, variation)
    \/ /\ WritesWithin
       /\ ReadsMade = 0
       /\ UnregisterPop(Writer, 1, Type(Student), None, None)
    \/ /\ WritesWithin
       /\ ReadsMade = 0
       /\ ClearTables(Writer, 1)
    \/ CacheClearStep(Writer)

\* The statements of a lookup that was started
FindTemplateStep(t) ==
    FindTemplateKeyIn(t) \/ FindTemplateConfig(t) \/ FindTemplateStore(t)

\* The interpreter switches between the threads that can run, so that every
\* thread inside a call gets to run its next statement
SpecReaders ==
    /\ InitThreads
    /\ [][NextReaders]_vars
    /\ \A t \in Readers : WF_vars(FindTemplateStep(t))

\* A lookup returned what find_template returns for its arguments when it is
\* called alone on the table, with nothing in the cache
ReturnedAsAlone ==
    ret.op = "find_template" =>
        ret.result = FindTemplateOn(<<>>, 0, 0, ret.self, ret.obj, ret.model,
                                    ret.variation).result

\* Every entry of the cache is under its own key and holds what the loop of
\* _find_template_cached finds in the table for that key
CacheCoherent ==
    /\ \A i \in 1..Len(cache) :
          cache[i].result = FindTemplateUncached(registrations[cache[i].key[1]],
                                cache[i].key[2], cache[i].key[3], cache[i].key[4])
    /\ \A i, j \in 1..Len(cache) : cache[i].key = cache[j].key => i = j

\* C29: on a table that no call changes any more, the lookups of several
\* threads, interleaved in any order, each return, each with what a lookup
\* made alone returns for its arguments, and the cache holds for every key what
\* the table gives for it.
C29_ConcurrentReaders ==
    /\ [](ReturnedAsAlone /\ CacheCoherent)
    /\ \A t \in Readers : (threads[t].pc # "idle") ~> (threads[t].pc = "idle")

\* Two lookups of one registered key ran at the same time: both missed, one
\* entry is in the cache, and the last one returned the registered mapping
C29_Witness ==
    /\ \A t \in Readers : threads[t].pc = "idle"
    /\ misses = 2
    /\ hits = 0
    /\ Len(cache) = 1
    /\ ret.op = "find_template"
    /\ ret.result = cache[1].result
    /\ cache[1].result # None

====
